---- MODULE Spec2Model ----
(***************************************************************************)
(* A model of the NH legislative tracker's analysis pipeline:              *)
(*   - the scheduled sync pass of data-collector.js (paginated fetch,      *)
(*     per-bill processing, watermark tracking), run from the cron trigger *)
(*     and from the manual admin trigger, which may overlap;               *)
(*   - the analysis store of analysis-storage.js (canonical key, reverse   *)
(*     mapping, write-then-readback, content-hash staleness check);        *)
(*   - the stale-while-revalidate cache of caching-middleware.js.          *)
(* Every KV operation is an await in the source, so each action below is   *)
(* one KV (or feed, or model) operation together with the synchronous code *)
(* that follows it up to the next await.                                   *)
(***************************************************************************)
EXTENDS Integers, Sequences, FiniteSets, TLC

VARIABLES
    kvData,      \* env.NH_LEGISLATIVE_DATA: key -> stored value
    kvMeta,      \* env.NH_LEGISLATIVE_METADATA: last_update_timestamp, <<>> when absent
    feed,        \* the external document feed: a sequence of pages of bills
    run,         \* per trigger: the locals of one scheduled() invocation
    passes,      \* number of scheduled() invocations started so far
    settled,     \* history: bill id -> title last processed successfully by a
                 \* pass that overlapped no other pass, <<>> when none or changed since
    faults,      \* number of KV or feed operations that have thrown so far
    cache,       \* caches.default: the entry stored for the one cache key
    now,         \* wall clock of the cache (seconds, scaled)
    origin,      \* version of the data the wrapped handler currently serves
    reqs,        \* per request: the locals of one withCache invocation
    tasks,       \* ctx.waitUntil: per request, the background task it registered
    doc,         \* a document handed to one of the pure functions
    twin,        \* a second document, to compare fingerprints with
    out          \* what the function last applied to doc returned

syncVars == <<kvData, kvMeta, feed, run, passes, settled, faults>>
cacheVars == <<cache, now, origin, reqs, tasks>>
fnVars == <<doc, twin, out>>
vars == <<kvData, kvMeta, feed, run, passes, settled, faults,
          cache, now, origin, reqs, tasks, doc, twin, out>>

----------------------------------------------------------------------------
(* Bounds of the model *)

MaxPasses == 2        \* scheduled() invocations per behaviour
MaxFaults == 1        \* KV or feed operations that throw, per behaviour
MaxTime == 3          \* feed timestamps range over 1..MaxTime
MaxNow == 8           \* the cache's clock runs from 0 to MaxNow
MaxOrigin == 1        \* versions of the data behind the cached handler
MaxTextLen == 1       \* length of the generated titles and abstracts

----------------------------------------------------------------------------
(* Strings are sequences of one-character strings; text hashed by         *)
(* calculateContentHash is a sequence of UTF-16 code units.                *)

Letters == {"H", "B", "S", "h", "b", "s"}
Digits == {"1", "2", "3"}

toLowerCase(c) ==
    CASE c = "H" -> "h"
      [] c = "B" -> "b"
      [] c = "S" -> "s"
      [] OTHER -> c

RECURSIVE LeadingRun(_, _)
\* the longest prefix of s made of characters of class
LeadingRun(s, class) ==
    IF s = <<>> \/ Head(s) \notin class THEN <<>>
    ELSE <<Head(s)>> \o LeadingRun(Tail(s), class)

RECURSIVE FirstRun(_, _)
\* the first maximal run of characters of class anywhere in s
FirstRun(s, class) ==
    IF s = <<>> THEN <<>>
    ELSE IF Head(s) \in class THEN LeadingRun(s, class)
    ELSE FirstRun(Tail(s), class)

MapLower(s) == [i \in 1..Len(s) |-> toLowerCase(s[i])]

\* identifier.match(/^([A-Za-z]+)/): <<>> stands for "no match"
MatchType(identifier) == LeadingRun(identifier, Letters)
\* identifier.match(/\d+/)
MatchNumber(identifier) == FirstRun(identifier, Digits)

\* getBillType / getBillNumber throw ValidationError when there is no match
BillTypeFails(identifier) == identifier = <<>> \/ MatchType(identifier) = <<>>
getBillTypeAsWritten(identifier) == MatchType(identifier)
getBillType(identifier) == MapLower(MatchType(identifier))
BillNumberFailsNever(identifier) == FALSE
BillNumberFails(identifier) == identifier = <<>> \/ MatchNumber(identifier) = <<>>
getBillNumber(identifier) == MatchNumber(identifier)

Dash == <<"-">>
StatePrefix == <<"n", "h">>
KeySuffix == <<"a", "i", "-", "a", "n", "a", "l", "y", "s", "i", "s">>
House == <<"h", "o", "u", "s", "e">>
Senate == <<"s", "e", "n", "a", "t", "e">>
Unknown == <<"u", "n", "k", "n", "o", "w", "n">>

\* bill.from_organization?.classification || 'unknown'
ChamberOf(bill) == IF bill.chamber = <<>> THEN Unknown ELSE bill.chamber

\* `nh-${billType}-${chamber}-${billNumber}-ai-analysis`
AnalysisKey(bill) ==
    StatePrefix \o Dash \o getBillType(bill.identifier) \o Dash \o ChamberOf(bill)
      \o Dash \o getBillNumber(bill.identifier) \o Dash \o KeySuffix

\* `bill:${bill.id}:analysis-key`
MappingKey(id) == <<"bill:", id, ":analysis-key">>
\* `bill:${bill.identifier}`
BillKey(identifier) == <<"bill:">> \o identifier
HighlightKey == <<"index:highlighted_bills">>
CategoryKey == <<"index:category:", "uncategorized">>

----------------------------------------------------------------------------
(* calculateContentHash *)

Pow2to15 == 32768
Pow2to16 == 65536

\* Wrap to a signed 16-bit half
ToInt16(x) == ((x + Pow2to15) % Pow2to16) - Pow2to15

\* One round of the loop: hash = ((hash << 5) - hash) + char; hash = hash & hash.
\* (hash << 5) - hash + char is 31 * hash + char, and `hash & hash` wraps it to a
\* signed 32-bit integer. The wrap is computed on the two 16-bit halves of hash,
\* so that no intermediate value leaves the 32-bit range.
HashStep(hash, char) ==
    LET hi == hash \div Pow2to16
        lo == hash % Pow2to16
        t == 31 * lo + char
    IN ToInt16(31 * hi + (t \div Pow2to16)) * Pow2to16 + (t % Pow2to16)

RECURSIVE HashFrom(_, _)
\* for (let i = 0; i < contentString.length; i++) { ... }
HashFrom(hash, s) ==
    IF s = <<>> THEN hash ELSE HashFrom(HashStep(hash, Head(s)), Tail(s))

Pipe == <<124>>

RECURSIVE JoinQuoted(_)
\* "a","b",... : each element in double quotes (34), separated by commas (44)
JoinQuoted(a) ==
    <<34>> \o Head(a) \o <<34>>
      \o (IF Len(a) = 1 THEN <<>> ELSE <<44>> \o JoinQuoted(Tail(a)))

\* JSON.stringify of an array of strings: [ (91) ... ] (93)
JsonStringifyArray(a) == <<91>> \o (IF a = <<>> THEN <<>> ELSE JoinQuoted(a)) \o <<93>>

\* a content string to which the identifier contributes, by its length
ContentStringWithIdentifier(bill) ==
    <<Len(bill.identifier)>> \o <<124>> \o bill.title \o <<124>> \o bill.abstract

\* [title, abstract, description, JSON.stringify(subject || []), latest_action].join('|')
ContentString(bill) ==
    bill.title \o Pipe \o bill.abstract \o Pipe \o bill.description \o Pipe
      \o JsonStringifyArray(bill.subject) \o Pipe \o bill.latest_action

\* the decimal string of an int32 is determined by the integer and determines it
calculateContentHash(bill) == HashFrom(0, ContentString(bill))

----------------------------------------------------------------------------
(* The documents of the feed *)

TitleA == <<84, 97, 120>>       \* "Tax"
TitleB == <<70, 101, 101>>      \* "Fee"
Titles == {TitleA, TitleB}

Bill(id, identifier, chamber, title, updatedAt) ==
    [id |-> id, identifier |-> identifier, chamber |-> chamber, title |-> title,
     abstract |-> <<>>, description |-> <<>>, subject |-> <<>>,
     latest_action |-> <<>>, updated_at |-> updatedAt]

BillIds == {"ocd-bill/1", "ocd-bill/2"}

\* "HB 1" of the house, "SB 2" of the senate
Bill1(t) == Bill("ocd-bill/1", <<"H", "B", " ", "1">>, House, TitleA, t)
Bill2(t) == Bill("ocd-bill/2", <<"S", "B", " ", "2">>, Senate, TitleA, t)

\* The feeds a behaviour may start with: no document, one document, both bills on
\* one page, or one bill per page with the newer one first
Feeds ==
    {<<>>,
     <<<<Bill1(1)>>>>,
     <<<<Bill1(1), Bill2(MaxTime)>>>>,
     <<<<Bill1(MaxTime)>>, <<Bill2(1)>>>>}

\* Overlapping passes are explored on the feeds of one document
SingleDocument(f) == Len(f) = 1 /\ Len(f[1]) = 1

\* The feed's current version of the document with this id
FeedDocs == UNION {{feed[p][i] : i \in 1..Len(feed[p])} : p \in 1..Len(feed)}
FeedDoc(id) == CHOOSE d \in FeedDocs : d.id = id

----------------------------------------------------------------------------
(* Values of the KV store *)

Absent == [kind |-> "absent"]
Text(t) == [kind |-> "text", text |-> t]
List(l) == [kind |-> "list", items |-> l]

Dimensions == {"tax_impact", "budget_impact", "societal_impact", "institutional_alignment"}

\* A dimension result is represented by the wording of its summary; "null" is null
NoDimensions == [d \in Dimensions |-> "null"]
\* createSimplifiedAnalysis on a text without keywords: only institutional_alignment
PlainAnalyses == [NoDimensions EXCEPT !["institutional_alignment"] = "insufficient"]
\* an analysis whose budget summary says "significant"
SignificantAnalyses ==
    [d \in Dimensions |-> IF d = "budget_impact" THEN "significant" ELSE "minor"]
\* what analyzeBill may gather from env.AI for a bill: analyzeWithAI returns a result
\* object for every dimension, whatever the model does
ModelAnswers == {SignificantAnalyses}

\* validate of ANALYSIS_SCHEMA: at least one impact type exists
hasImpactTypeUnchecked(analyses) == TRUE
hasImpactType(analyses) == \E d \in Dimensions : analyses[d] # "null"

\* BILL_SCHEMA: id, identifier and title are required, that is neither undefined
\* nor null (an empty string passes); a document lacking a field is a record
\* without it
BillValid(bill) == {"id", "identifier", "title"} \subseteq DOMAIN bill

\* the result object of analyzeBill; analysis_timestamp is the time of the pass
AnalysisResult(bill, answers, time) ==
    [kind |-> "result", bill_id |-> bill.id, bill_identifier |-> bill.identifier,
     analysis_timestamp |-> time, analyses |-> answers]

\* analysisData of storeAnalysisResults
AnalysisDataWithoutHash(bill, analysis, time) ==
    [kind |-> "analysis", bill_id |-> bill.id, bill_identifier |-> bill.identifier,
     bill_title |-> bill.title, analysis_timestamp |-> time,
     analyses |-> analysis.analyses, content_hash |-> 0]

AnalysisData(bill, analysis, time) ==
    [kind |-> "analysis", bill_id |-> bill.id, bill_identifier |-> bill.identifier,
     bill_title |-> bill.title, analysis_timestamp |-> time,
     analyses |-> analysis.analyses, content_hash |-> calculateContentHash(bill)]

\* enhancedBill of processBillWithPersistentAnalysis
EnhancedBill(bill) ==
    [kind |-> "bill", id |-> bill.id, identifier |-> bill.identifier,
     title |-> bill.title, nh_category |-> "uncategorized",
     nh_analysis_key |-> AnalysisKey(bill)]

DataKeys ==
    {AnalysisKey(Bill1(1)), AnalysisKey(Bill2(1)), HighlightKey, CategoryKey,
     BillKey(Bill1(1).identifier), BillKey(Bill2(1).identifier)}
      \cup {MappingKey(id) : id \in BillIds}

----------------------------------------------------------------------------
(* createSimplifiedAnalysis: the keyword analysis used when env.AI is absent *)

\* taxKeywords: tax, revenue, levy, fiscal, income
taxKeywords ==
    {<<116, 97, 120>>,
     <<114, 101, 118, 101, 110, 117, 101>>,
     <<108, 101, 118, 121>>,
     <<102, 105, 115, 99, 97, 108>>,
     <<105, 110, 99, 111, 109, 101>>}
\* budgetKeywords: budget, appropriation, fund, spend, cost
budgetKeywords ==
    {<<98, 117, 100, 103, 101, 116>>,
     <<97, 112, 112, 114, 111, 112, 114, 105, 97, 116, 105, 111, 110>>,
     <<102, 117, 110, 100>>,
     <<115, 112, 101, 110, 100>>,
     <<99, 111, 115, 116>>}
\* societalKeywords: education, health, environment, justice, rights, family
societalKeywords ==
    {<<101, 100, 117, 99, 97, 116, 105, 111, 110>>,
     <<104, 101, 97, 108, 116, 104>>,
     <<101, 110, 118, 105, 114, 111, 110, 109, 101, 110, 116>>,
     <<106, 117, 115, 116, 105, 99, 101>>,
     <<114, 105, 103, 104, 116, 115>>,
     <<102, 97, 109, 105, 108, 121>>}

\* String.prototype.toLowerCase on one code unit (A-Z only occur here)
LowerUnit(c) == IF c \in 65..90 THEN c + 32 ELSE c
LowerText(t) == [i \in 1..Len(t) |-> LowerUnit(t[i])]

RECURSIVE JoinSpace(_)
\* parts.join(' ')
JoinSpace(parts) ==
    IF parts = <<>> THEN <<>>
    ELSE IF Len(parts) = 1 THEN Head(parts)
    ELSE Head(parts) \o <<32>> \o JoinSpace(Tail(parts))

\* [title, abstract, description, ...subject].join(' ').toLowerCase()
billText(bill) ==
    LowerText(JoinSpace(<<bill.title, bill.abstract, bill.description>> \o bill.subject))

\* billText.includes(kw)
TextIncludes(text, kw) ==
    \E i \in 1..(Len(text) - Len(kw) + 1) : SubSeq(text, i, i + Len(kw) - 1) = kw

\* The text of the summary that a wording stands for.  "minor" and
\* "significant" are the summaries of createSimplifiedAnalysis, "insufficient"
\* its institutional summary; "Major" and "SUBSTANTIAL" are summaries as a
\* model may word them, "empty" is the empty string.
\* Potential is "Potential ", Implications is " implications based on keyword
\* analysis.", DimensionWord is "tax", "budget", "societal".
SummaryText(d, wording) ==
    LET Potential == <<80, 111, 116, 101, 110, 116, 105, 97, 108, 32>>
        Implications ==
            <<32, 105, 109, 112, 108, 105, 99, 97, 116, 105, 111, 110, 115, 32, 98,
              97, 115, 101, 100, 32, 111, 110, 32, 107, 101, 121, 119, 111, 114,
              100, 32, 97, 110, 97, 108, 121, 115, 105, 115, 46>>
        DimensionWord ==
            CASE d = "tax_impact" -> <<116, 97, 120>>
              [] d = "budget_impact" -> <<98, 117, 100, 103, 101, 116>>
              [] d = "societal_impact" -> <<115, 111, 99, 105, 101, 116, 97, 108>>
              [] OTHER -> <<105, 110, 115, 116, 105, 116, 117, 116, 105, 111, 110, 97, 108>>
    IN CASE wording = "minor" ->
               Potential \o <<109, 105, 110, 111, 114, 32>> \o DimensionWord \o Implications
         [] wording = "significant" ->
               Potential \o <<115, 105, 103, 110, 105, 102, 105, 99, 97, 110, 116, 32>>
                  \o DimensionWord \o Implications
         [] wording = "insufficient" ->
               \* "Insufficient data for institutional alignment analysis."
               <<73, 110, 115, 117, 102, 102, 105, 99, 105, 101, 110, 116, 32, 100,
                 97, 116, 97, 32, 102, 111, 114, 32, 105, 110, 115, 116, 105, 116,
                 117, 116, 105, 111, 110, 97, 108, 32, 97, 108, 105, 103, 110, 109,
                 101, 110, 116, 32, 97, 110, 97, 108, 121, 115, 105, 115, 46>>
         [] wording = "Major" ->
               \* "Major change"
               <<77, 97, 106, 111, 114, 32, 99, 104, 97, 110, 103, 101>>
         [] wording = "SUBSTANTIAL" ->
               \* "A SUBSTANTIAL cut"
               <<65, 32, 83, 85, 66, 83, 84, 65, 78, 84, 73, 65, 76, 32, 99, 117, 116>>
         [] OTHER -> <<>>

\* the wordings a dimension of an analysis may have
Wordings == {"null", "empty", "minor", "significant", "insufficient", "Major", "SUBSTANTIAL"}

\* 'significant', 'major', 'substantial'
IntensityWords ==
    {<<115, 105, 103, 110, 105, 102, 105, 99, 97, 110, 116>>,
     <<109, 97, 106, 111, 114>>,
     <<115, 117, 98, 115, 116, 97, 110, 116, 105, 97, 108>>}

\* a test for 'significant' alone
shouldHighlightSignificantOnly(analysis) ==
    /\ analysis.kind \in {"result", "analysis"}
    /\ \E d \in {"tax_impact", "budget_impact", "societal_impact"} :
          /\ analysis.analyses[d] # "null"
          /\ TextIncludes(LowerText(SummaryText(d, analysis.analyses[d])),
                          <<115, 105, 103, 110, 105, 102, 105, 99, 97, 110, 116>>)

\* shouldHighlightBill: impact && impact.summary &&
\* impact.summary.toLowerCase().includes(word), for the three dimensions
shouldHighlightBill(analysis) ==
    /\ analysis.kind \in {"result", "analysis"}
    /\ \E d \in {"tax_impact", "budget_impact", "societal_impact"} :
          /\ analysis.analyses[d] # "null"
          /\ SummaryText(d, analysis.analyses[d]) # <<>>
          /\ \E word \in IntensityWords :
                TextIncludes(LowerText(SummaryText(d, analysis.analyses[d])), word)

\* keywords.filter(kw => billText.includes(kw)).length
Matches(text, keywords) == Cardinality({kw \in keywords : TextIncludes(text, kw)})

\* the summary of a keyword dimension: null without a match, "significant" with
\* more than two matches, "minor" otherwise
KeywordImpactAtTwo(matches) ==
    IF matches > 0 THEN (IF matches > 1 THEN "significant" ELSE "minor") ELSE "null"
KeywordImpact(matches) ==
    IF matches > 0 THEN (IF matches > 2 THEN "significant" ELSE "minor") ELSE "null"

\* institutional_alignment of the simplified analysis
InstitutionalOmitted == "null"
InstitutionalFallback == "insufficient"

createSimplifiedAnalysis(bill) ==
    [d \in Dimensions |->
       CASE d = "tax_impact" -> KeywordImpact(Matches(billText(bill), taxKeywords))
         [] d = "budget_impact" -> KeywordImpact(Matches(billText(bill), budgetKeywords))
         [] d = "societal_impact" -> KeywordImpact(Matches(billText(bill), societalKeywords))
         [] OTHER -> InstitutionalFallback]

----------------------------------------------------------------------------
(* One scheduled() invocation *)

Triggers == {"cron", "manual"}

\* new Date() minus LOOKBACK_DAYS, on the scale of the feed's timestamps
DefaultLookback == 1

Max(a, b) == IF a > b THEN a ELSE b

IdleRun ==
    [pc |-> "idle", time |-> 0, since |-> 0, page |-> 1, newest |-> 0,
     results |-> <<>>, total_pages |-> 0, i |-> 1,
     analysisKey |-> <<>>, existing |-> Absent, analysis |-> Absent,
     analysisData |-> Absent, verifyData |-> Absent, stored |-> "no",
     list |-> <<>>, processed |-> <<>>,
     \* history of the pass, for the properties
     overlap |-> FALSE, prior |-> [id \in BillIds |-> <<>>],
     fetchFailed |-> FALSE, doneMax |-> 0, storeLog |-> <<>>,
     lazyMapping |-> "no",
     \* what getExistingAnalysis read under the analysis key, fresh or not
     found |-> Absent]

CurBill(r) == run[r].results[run[r].i]
Active(r) == run[r].pc \notin {"idle", "done"}

InitSync ==
    /\ kvData = [k \in DataKeys |-> Absent]
    /\ kvMeta \in {[last_update_timestamp |-> t, analysis_summaries |-> {}] :
                       t \in {<<>>, <<2>>}}
    /\ feed \in Feeds
    /\ run = [r \in Triggers |-> IdleRun]
    /\ passes = 0
    /\ settled = [id \in BillIds |-> <<>>]
    /\ faults = 0

----------------------------------------------------------------------------
(* Steps shared by the actions of a pass *)

\* currentContentHash === analysisData.content_hash
ContentUnchangedNever(bill, data) == FALSE
ContentUnchangedAlways(bill, data) == TRUE
ContentUnchanged(bill, data) == calculateContentHash(bill) = data.content_hash

\* the comparison that guards `newestUpdateTimestamp = newestBillUpdate.updated_at`
ShouldAdvanceAlways(pageNewest, newest) == TRUE
ShouldAdvance(pageNewest, newest) == pageNewest > newest

\* hasMorePages after a response without results (`hasMorePages = false; continue`)
HasMoreAfterEmptyKept == TRUE
HasMoreAfterEmpty == FALSE

\* the order of the KV operations of storeAnalysisResults
StoreStepsMappingFirst == <<"store_map", "store_put", "store_verify">>
StoreSteps == <<"store_put", "store_map", "store_verify">>

\* the put of getExistingAnalysis that recreates the reverse mapping
PutLazyNothing(kv, id, key) == kv
PutLazy(kv, id, key) == [kv EXCEPT ![MappingKey(id)] = Text(key)]

RECURSIVE ReduceNewest(_, _)
\* results.reduce((newest, bill) => bill.updated_at > newest.updated_at ? bill : newest)
ReduceNewestKeepsFirst(newest, rest) == newest
ReduceNewest(newest, rest) ==
    IF rest = <<>> THEN newest
    ELSE ReduceNewest(IF Head(rest).updated_at > newest.updated_at
                      THEN Head(rest) ELSE newest, Tail(rest))

StoreNext(pc) ==
    LET k == CHOOSE j \in 1..Len(StoreSteps) : StoreSteps[j] = pc
    IN IF k < Len(StoreSteps) THEN StoreSteps[k + 1] ELSE "store_return"

\* The locals after one KV operation of storeAnalysisResults: the next operation,
\* or `return analysisKey`, after which updateAnalysisIfNeeded returns the analysis
StoreAdvance(rec, op) ==
    LET n == StoreNext(rec.pc)
    IN [rec EXCEPT !.storeLog = Append(@, op),
                   !.stored = IF n = "store_return" THEN "ok" ELSE @,
                   !.pc = IF n = "store_return" THEN "put_bill" ELSE n]

\* The locals after processBillWithPersistentAnalysis has returned for the current
\* bill: the identifier is pushed unless the result carries an error; then the
\* next bill of the page, or the end of the page (hasMorePages, page++).
AfterBillOverlapping(rec, ok) ==
    IF rec.i < Len(rec.results) THEN [rec EXCEPT !.i = @ + 1]
    ELSE [rec EXCEPT !.page = @ + 1, !.results = <<>>, !.i = 1, !.pc = "summaries"]
AfterBillRetriesPage(rec, ok) ==
    LET pushed == [rec EXCEPT !.processed =
                      IF ok THEN Append(@, rec.results[rec.i].identifier) ELSE @,
                   !.analysisKey = <<>>, !.existing = Absent, !.analysis = Absent,
                   !.analysisData = Absent, !.verifyData = Absent, !.stored = "no",
                   !.storeLog = <<>>, !.lazyMapping = "no", !.list = <<>>,
                   !.found = Absent]
    IN IF ~ok
       THEN [pushed EXCEPT !.results = <<>>, !.i = 1, !.pc = "fetch"]
       ELSE IF rec.i < Len(rec.results)
       THEN [pushed EXCEPT !.i = @ + 1, !.pc = "get_mapping"]
       ELSE [pushed EXCEPT !.page = @ + 1, !.results = <<>>, !.i = 1,
                           !.pc = IF rec.total_pages > rec.page THEN "fetch"
                                  ELSE "summaries",
                           !.doneMax = Max(@, ReduceNewest(Head(rec.results),
                                                          Tail(rec.results)).updated_at)]
AfterBill(rec, ok) ==
    LET pushed == [rec EXCEPT !.processed =
                      IF ok THEN Append(@, rec.results[rec.i].identifier) ELSE @,
                   \* the locals of the calls that have returned are gone
                   !.analysisKey = <<>>, !.existing = Absent, !.analysis = Absent,
                   !.analysisData = Absent, !.verifyData = Absent, !.stored = "no",
                   !.storeLog = <<>>, !.lazyMapping = "no", !.list = <<>>,
                   !.found = Absent]
        hasMorePages == rec.total_pages > rec.page
    IN IF rec.i < Len(rec.results)
       THEN [pushed EXCEPT !.i = @ + 1, !.pc = "get_mapping"]
       ELSE [pushed EXCEPT !.page = @ + 1, !.results = <<>>, !.i = 1,
                           !.pc = IF hasMorePages THEN "fetch" ELSE "summaries",
                           !.doneMax = Max(@, ReduceNewest(Head(rec.results),
                                                          Tail(rec.results)).updated_at)]

Goto(r, rec) ==
    /\ run' = [run EXCEPT ![r] = rec]
    /\ UNCHANGED settled

BillEnd(r, rec, ok) ==
    LET bill == rec.results[rec.i]
    IN /\ run' = [run EXCEPT ![r] = AfterBill(rec, ok)]
       /\ settled' = IF ok /\ ~rec.overlap /\ FeedDoc(bill.id).title = bill.title
                     THEN [settled EXCEPT ![bill.id] = bill.title]
                     ELSE settled

\* the rest of processBillWithPersistentAnalysis after updateBillIndexes
AfterIndexes(r, rec) ==
    IF shouldHighlightBill(rec.analysis)
    THEN Goto(r, [rec EXCEPT !.pc = "hl_get"])
    ELSE BillEnd(r, rec, TRUE)

\* the constructed-key branch of getExistingAnalysis: getBillType and
\* getBillNumber throw ValidationError for a malformed identifier
ToConstructed(r, rec) ==
    LET bill == rec.results[rec.i]
    IN IF BillTypeFails(bill.identifier) \/ BillNumberFails(bill.identifier)
       THEN BillEnd(r, rec, FALSE)
       ELSE Goto(r, [rec EXCEPT !.pc = "get_constructed"])

----------------------------------------------------------------------------
(* The actions of a sync pass *)

\* An operation on the KV store or on the feed may throw; the model bounds the
\* number of operations that do
Fault == faults < MaxFaults /\ faults' = faults + 1
NoFault == UNCHANGED faults

\* scheduled(event, env, ctx) is invoked, by the cron trigger or by
\* /api/admin/trigger-collection. The two triggers run the same code, so a manual
\* pass that overlaps no cron pass is not told apart from a cron pass: the manual
\* trigger is used while a cron pass is running.
Start(r) ==
    /\ ~Active(r)
    /\ r = "manual" => Active("cron")
    /\ (\E o \in Triggers \ {r} : Active(o)) => SingleDocument(feed)
    /\ passes < MaxPasses
    /\ LET alone == \A o \in Triggers \ {r} : ~Active(o)
       IN run' = [o \in Triggers |->
                    IF o = r
                    THEN [IdleRun EXCEPT !.pc = "get_ts", !.time = passes + 1,
                                         !.overlap = ~alone,
                                         !.prior = IF alone THEN settled ELSE @]
                    ELSE IF Active(o) THEN [run[o] EXCEPT !.overlap = TRUE]
                    ELSE run[o]]
    /\ passes' = passes + 1
    /\ UNCHANGED <<kvData, kvMeta, feed, settled, faults, cacheVars, fnVars>>

\* the locals of updateBillsWithPersistentAnalysis, called with the timestamp
\* getLastUpdateTimestamp returned
EnterUpdateBills(rec, lastUpdateTimestamp) ==
    [rec EXCEPT !.pc = "fetch", !.since = lastUpdateTimestamp, !.page = 1,
                !.newest = lastUpdateTimestamp, !.doneMax = lastUpdateTimestamp]

\* getLastUpdateTimestamp
GetLastUpdateTimestamp(r) ==
    /\ run[r].pc = "get_ts"
    /\ \/ \* the KV read succeeds
          /\ NoFault
          /\ Goto(r, EnterUpdateBills(run[r],
                        IF kvMeta.last_update_timestamp # <<>>
                        THEN kvMeta.last_update_timestamp[1]
                        ELSE DefaultLookback))
       \/ \* the KV read throws: fallback to 30 days ago
          /\ Fault
          /\ Goto(r, EnterUpdateBills(run[r], DefaultLookback))
    /\ UNCHANGED <<kvData, kvMeta, feed, passes, cacheVars, fnVars>>

\* The page loop after fetchBillUpdates has returned a response: the test for an
\* empty response, and the update of newestUpdateTimestamp
AfterFetch(rec, results, total) ==
    IF results = <<>>
    THEN [rec EXCEPT !.pc = IF HasMoreAfterEmpty THEN "fetch" ELSE "summaries"]
    ELSE LET pageNewest == ReduceNewest(Head(results), Tail(results)).updated_at
         IN [rec EXCEPT !.results = results, !.total_pages = total, !.i = 1,
                        !.newest = IF ShouldAdvance(pageNewest, @) THEN pageNewest ELSE @,
                        !.pc = "get_mapping"]

\* one turn of the page loop up to the first bill
FetchBillUpdates(r) ==
    /\ run[r].pc = "fetch"
    /\ \/ \* the request succeeds: the page and the feed's pagination
          /\ NoFault
          /\ Goto(r, AfterFetch(run[r],
                                IF run[r].page > Len(feed) THEN <<>> ELSE feed[run[r].page],
                                Len(feed)))
       \/ \* the request fails: the catch block answers with no results
          /\ Fault
          /\ Goto(r, AfterFetch([run[r] EXCEPT !.fetchFailed = TRUE], <<>>, 0))
    /\ UNCHANGED <<kvData, kvMeta, feed, passes, cacheVars, fnVars>>

\* processBillWithPersistentAnalysis -> updateAnalysisIfNeeded ->
\* getExistingAnalysis: the read of bill:<id>:analysis-key
GetMappingKey(r) ==
    /\ run[r].pc = "get_mapping"
    /\ LET rec == run[r]
           bill == CurBill(r)
           m == kvData[MappingKey(bill.id)]
       IN \/ \* the read succeeds
             /\ NoFault
             /\ IF ~BillValid(bill) THEN BillEnd(r, rec, FALSE)
                ELSE IF m.kind = "text" /\ m.text # <<>>
                THEN Goto(r, [rec EXCEPT !.analysisKey = m.text, !.pc = "get_mapped"])
                ELSE ToConstructed(r, rec)
          \/ \* the read throws: StorageError
             /\ Fault
             /\ BillEnd(r, rec, FALSE)
    /\ UNCHANGED <<kvData, kvMeta, feed, passes, cacheVars, fnVars>>

\* getExistingAnalysis: the read of the key the mapping names
GetMappedAnalysis(r) ==
    /\ run[r].pc = "get_mapped"
    /\ LET rec == run[r]
           bill == CurBill(r)
           data == kvData[rec.analysisKey]
       IN \/ \* the read succeeds
             /\ NoFault
             /\ IF data.kind = "analysis"
                THEN IF ContentUnchanged(bill, data)
                     THEN Goto(r, [rec EXCEPT !.found = data, !.existing = data,
                                              !.analysis = data, !.pc = "put_bill"])
                     ELSE \* `return null`
                          Goto(r, [rec EXCEPT !.found = data, !.pc = "analyze"])
                ELSE ToConstructed(r, rec)
          \/ \* the read throws: StorageError
             /\ Fault
             /\ BillEnd(r, rec, FALSE)
    /\ UNCHANGED <<kvData, kvMeta, feed, passes, cacheVars, fnVars>>

\* getExistingAnalysis: the read of the constructed key
GetConstructedAnalysis(r) ==
    /\ run[r].pc = "get_constructed"
    /\ LET rec == run[r]
           data == kvData[AnalysisKey(CurBill(r))]
       IN \/ \* the read succeeds
             /\ NoFault
             /\ IF data.kind = "analysis"
                THEN Goto(r, [rec EXCEPT !.found = data, !.existing = data,
                                         !.pc = "put_lazy_mapping"])
                ELSE Goto(r, [rec EXCEPT !.pc = "analyze"])
          \/ \* the read throws: StorageError
             /\ Fault
             /\ BillEnd(r, rec, FALSE)
    /\ UNCHANGED <<kvData, kvMeta, feed, passes, cacheVars, fnVars>>

\* getExistingAnalysis: the mapping is created for future lookups (a failed put is
\* logged, not thrown), then the content hash is checked
PutLazyMapping(r) ==
    /\ run[r].pc = "put_lazy_mapping"
    /\ LET rec == run[r]
           bill == CurBill(r)
           next(written) ==
               IF ContentUnchanged(bill, rec.existing)
               THEN [rec EXCEPT !.analysis = rec.existing, !.lazyMapping = written,
                                !.pc = "put_bill"]
               ELSE \* `return null`
                    [rec EXCEPT !.existing = Absent, !.lazyMapping = written,
                                !.pc = "analyze"]
       IN \/ \* the put succeeds
             /\ NoFault
             /\ kvData' = PutLazy(kvData, bill.id, AnalysisKey(bill))
             /\ Goto(r, next("written"))
          \/ \* the put throws: caught, a warning only
             /\ Fault
             /\ UNCHANGED kvData
             /\ Goto(r, next("failed"))
    /\ UNCHANGED <<kvMeta, feed, passes, cacheVars, fnVars>>

\* updateAnalysisIfNeeded: analyzeBill (which never throws; with env.AI absent it
\* answers with createSimplifiedAnalysis), validateData of the result, and
\* storeAnalysisResults up to its first KV operation
AnalyzeBill(r) ==
    /\ run[r].pc = "analyze"
    /\ \E answers \in ModelAnswers \cup {createSimplifiedAnalysis(CurBill(r))} :
          LET rec == run[r]
              bill == CurBill(r)
              analysis == AnalysisResult(bill, answers, rec.time)
          IN IF ~hasImpactType(analysis.analyses)
                \/ BillTypeFails(bill.identifier) \/ BillNumberFails(bill.identifier)
             THEN BillEnd(r, rec, FALSE)
             ELSE Goto(r, [rec EXCEPT
                             !.analysis = analysis,
                             !.analysisData = AnalysisData(bill, analysis, rec.time),
                             !.storeLog = <<"validate">>,
                             !.pc = StoreSteps[1]])
    /\ UNCHANGED <<kvData, kvMeta, feed, passes, faults, cacheVars, fnVars>>

\* env.NH_LEGISLATIVE_DATA.put(key, JSON.stringify(data)): the value under the
\* key is replaced as a whole
PutAnalysisMerged(kv, key, data) ==
    [kv EXCEPT ![key] = IF @.kind = "analysis"
                        THEN [data EXCEPT !.analysis_timestamp = kv[key].analysis_timestamp]
                        ELSE data]
PutAnalysis(kv, key, data) == [kv EXCEPT ![key] = data]

\* storeAnalysisResults: put(analysisKey, JSON.stringify(analysisData))
StorePutAnalysis(r) ==
    /\ run[r].pc = "store_put"
    /\ LET rec == run[r]
       IN \/ \* the put succeeds
             /\ NoFault
             /\ kvData' = PutAnalysis(kvData, AnalysisKey(CurBill(r)), rec.analysisData)
             /\ Goto(r, StoreAdvance(rec, "put_analysis"))
          \/ \* the put throws: StorageError
             /\ Fault
             /\ UNCHANGED kvData
             /\ BillEnd(r, rec, FALSE)
    /\ UNCHANGED <<kvMeta, feed, passes, cacheVars, fnVars>>

\* storeAnalysisResults: put(`bill:${bill.id}:analysis-key`, analysisKey)
StorePutMapping(r) ==
    /\ run[r].pc = "store_map"
    /\ LET rec == run[r]
           bill == CurBill(r)
       IN \/ \* the put succeeds
             /\ NoFault
             /\ kvData' = [kvData EXCEPT ![MappingKey(bill.id)] = Text(AnalysisKey(bill))]
             /\ Goto(r, StoreAdvance(rec, "put_mapping"))
          \/ \* the put throws: StorageError
             /\ Fault
             /\ UNCHANGED kvData
             /\ BillEnd(r, rec, FALSE)
    /\ UNCHANGED <<kvMeta, feed, passes, cacheVars, fnVars>>

\* storeAnalysisResults: the readback of analysisKey
StoreVerify(r) ==
    /\ run[r].pc = "store_verify"
    /\ LET rec == run[r]
           verifyData == kvData[AnalysisKey(CurBill(r))]
       IN \/ \* the read succeeds
             /\ NoFault
             /\ IF verifyData.kind = "absent"
                THEN BillEnd(r, rec, FALSE)
                ELSE Goto(r, StoreAdvance([rec EXCEPT !.verifyData = verifyData],
                                          "get_analysis"))
          \/ \* the read throws: StorageError
             /\ Fault
             /\ BillEnd(r, rec, FALSE)
    /\ UNCHANGED <<kvData, kvMeta, feed, passes, cacheVars, fnVars>>

\* processBillWithPersistentAnalysis: the analysis key is rebuilt from the
\* identifier (a failed match is a TypeError, caught) and the enhanced bill stored
PutBill(r) ==
    /\ run[r].pc = "put_bill"
    /\ LET rec == run[r]
           bill == CurBill(r)
       IN \/ \* the put succeeds
             /\ NoFault
             /\ IF MatchType(bill.identifier) = <<>> \/ MatchNumber(bill.identifier) = <<>>
                THEN UNCHANGED kvData /\ BillEnd(r, rec, FALSE)
                ELSE /\ kvData' = [kvData EXCEPT ![BillKey(bill.identifier)] =
                                                    EnhancedBill(bill)]
                     /\ Goto(r, [rec EXCEPT !.pc = "idx"])
          \/ \* the put throws: caught by processBillWithPersistentAnalysis
             /\ Fault
             /\ UNCHANGED kvData
             /\ BillEnd(r, rec, FALSE)
    /\ UNCHANGED <<kvMeta, feed, passes, cacheVars, fnVars>>

\* the items of a stored list, `|| []` when the key is absent
ItemsOf(v) == IF v.kind = "list" THEN v.items ELSE <<>>
IncludesNever(l, x) == FALSE
Includes(l, x) == \E j \in 1..Len(l) : l[j] = x

\* updateBillIndexes: the category index is read and, when the identifier is not
\* in it, written with the identifier appended; an error is caught and logged. The
\* read and the write are taken together: only this function touches the key.
UpdateBillIndexes(r) ==
    /\ run[r].pc = "idx"
    /\ LET bill == CurBill(r)
           categoryBills == ItemsOf(kvData[CategoryKey])
       IN \/ \* the operations succeed
             /\ NoFault
             /\ kvData' = IF Includes(categoryBills, bill.identifier) THEN kvData
                          ELSE [kvData EXCEPT ![CategoryKey] =
                                   List(Append(categoryBills, bill.identifier))]
          \/ \* one of them throws: caught by updateBillIndexes
             /\ Fault
             /\ UNCHANGED kvData
    /\ AfterIndexes(r, run[r])
    /\ UNCHANGED <<kvMeta, feed, passes, cacheVars, fnVars>>

\* addBillToHighlightIndex: the read of index:highlighted_bills
HlGet(r) ==
    /\ run[r].pc = "hl_get"
    /\ LET rec == run[r]
           bill == CurBill(r)
           highlightedBills == ItemsOf(kvData[HighlightKey])
       IN \/ \* the read succeeds
             /\ NoFault
             /\ IF Includes(highlightedBills, bill.identifier)
                THEN BillEnd(r, rec, TRUE)
                ELSE Goto(r, [rec EXCEPT !.list = Append(highlightedBills, bill.identifier),
                                         !.pc = "hl_put"])
          \/ \* the read throws: caught by addBillToHighlightIndex
             /\ Fault
             /\ BillEnd(r, rec, TRUE)
    /\ UNCHANGED <<kvData, kvMeta, feed, passes, cacheVars, fnVars>>

\* addBillToHighlightIndex: the write of index:highlighted_bills
HlPut(r) ==
    /\ run[r].pc = "hl_put"
    /\ \/ \* the put succeeds
          /\ NoFault
          /\ kvData' = [kvData EXCEPT ![HighlightKey] = List(run[r].list)]
       \/ \* the put throws: caught by addBillToHighlightIndex
          /\ Fault
          /\ UNCHANGED kvData
    /\ BillEnd(r, run[r], TRUE)
    /\ UNCHANGED <<kvMeta, feed, passes, cacheVars, fnVars>>

\* what generateAnalysisSummaries collects: for each highlighted bill with a stored
\* record and a stored analysis, the dimensions that have a summary
Summaries ==
    LET hl == ItemsOf(kvData[HighlightKey])
    IN {e \in {<<hl[j], d>> : j \in 1..Len(hl), d \in Dimensions} :
           LET bill == kvData[BillKey(e[1])]
           IN /\ bill.kind = "bill"
              /\ kvData[bill.nh_analysis_key].kind = "analysis"
              /\ kvData[bill.nh_analysis_key].analyses[e[2]] # "null"}

\* the rest of scheduled() after updateBillsWithPersistentAnalysis has returned:
\* collectRepresentativeData and updateCommitteeAttendance only log;
\* generateAnalysisSummaries writes analysis_summaries (its reads are taken
\* together here: nothing else reads what it writes). The handler returns.
GenerateAnalysisSummaries(r) ==
    /\ run[r].pc = "summaries"
    /\ \/ \* the summaries are stored, unless no bill is highlighted
          /\ NoFault
          /\ kvMeta' = IF ItemsOf(kvData[HighlightKey]) # <<>>
                       THEN [kvMeta EXCEPT !.analysis_summaries = Summaries]
                       ELSE kvMeta
       \/ \* a KV operation throws (caught)
          /\ Fault
          /\ UNCHANGED kvMeta
    /\ Goto(r, [run[r] EXCEPT !.pc = "done"])
    /\ UNCHANGED <<kvData, feed, passes, cacheVars, fnVars>>

\* The feed's owner amends the title of a document (and so its updated_at). A
\* pass sees an amendment made before its fetch of the page and misses one made
\* after it; amendments are taken between passes.
EditableIds == {"ocd-bill/1"}
FeedEdit(id) ==
    /\ feed # <<>>
    /\ \A r \in Triggers : ~Active(r)
    /\ id \in EditableIds
    /\ FeedDoc(id).title = TitleA
    /\ feed' = [p \in 1..Len(feed) |->
                  [i \in 1..Len(feed[p]) |->
                     IF feed[p][i].id = id
                     THEN [feed[p][i] EXCEPT !.title = TitleB, !.updated_at = MaxTime]
                     ELSE feed[p][i]]]
    /\ settled' = [settled EXCEPT ![id] = <<>>]
    /\ UNCHANGED <<kvData, kvMeta, run, passes, faults, cacheVars, fnVars>>

NextSync ==
    \/ \E r \in Triggers : Start(r)
    \/ \E r \in Triggers : GetLastUpdateTimestamp(r)
    \/ \E r \in Triggers : FetchBillUpdates(r)
    \/ \E r \in Triggers : GetMappingKey(r)
    \/ \E r \in Triggers : GetMappedAnalysis(r)
    \/ \E r \in Triggers : GetConstructedAnalysis(r)
    \/ \E r \in Triggers : PutLazyMapping(r)
    \/ \E r \in Triggers : AnalyzeBill(r)
    \/ \E r \in Triggers : StorePutAnalysis(r)
    \/ \E r \in Triggers : StorePutMapping(r)
    \/ \E r \in Triggers : StoreVerify(r)
    \/ \E r \in Triggers : PutBill(r)
    \/ \E r \in Triggers : UpdateBillIndexes(r)
    \/ \E r \in Triggers : HlGet(r)
    \/ \E r \in Triggers : HlPut(r)
    \/ \E r \in Triggers : GenerateAnalysisSummaries(r)
    \/ \E id \in BillIds : FeedEdit(id)

----------------------------------------------------------------------------
(* withCache: the stale-while-revalidate cache in front of a GET handler.  *)
(* One cache key is modelled. Time is counted in units of 15 minutes; the  *)
(* Date header of a stored response is the time it was put.                *)

Requests == {"q1", "q2"}

\* ttlConfig.bills: cacheTtl 1800 s, staleWhileRevalidateTtl 3600 s
CacheTtl == 2
StaleWhileRevalidateTtl == 4

NoEntry == [kind |-> "none"]
Entry(status, body, date, xcache) ==
    [kind |-> "entry", status |-> status, body |-> body, date |-> date,
     xcache |-> xcache]

NoTask == [kind |-> "none"]
IdleReq ==
    [pc |-> "idle", method |-> "GET", status |-> 0, body |-> 0,
     xcache |-> "", tag |-> "",
     \* history of the request, for the properties
     age |-> 0, date |-> 0, awaited |-> FALSE,
     \* how the revalidation this request started has ended
     revalidation |-> "none"]

\* ageInSeconds > cacheTtl && ageInSeconds <= (cacheTtl + staleWhileRevalidateTtl)
IsStale(ageInSeconds) ==
    ageInSeconds > CacheTtl /\ ageInSeconds <= CacheTtl + StaleWhileRevalidateTtl

\* what the stale branch hands to ctx.waitUntil
StaleTaskNone == NoTask
StaleTask == [kind |-> "revalidate_handler"]

\* the entry revalidateCache puts after a successful handler call
RevalidatedEntry(status, body, date) == Entry(status, body, date, "REVALIDATED")

\* the body of an error response, and of the 500 built for a handler that throws
ErrorBody == -1

\* what `await handler(...)` may come to: a response, or a throw
HandlerResponses(data) ==
    {[threw |-> FALSE, status |-> 200, body |-> data],
     [threw |-> FALSE, status |-> 404, body |-> ErrorBody],
     [threw |-> FALSE, status |-> 500, body |-> ErrorBody],
     [threw |-> TRUE, status |-> 0, body |-> ErrorBody]}

\* routes['/api/metrics']: the metrics for a request whose Authorization header
\* holds env.API_KEY, 401 for any other
metricsRouteOpen(authorized, data) == [threw |-> FALSE, status |-> 200, body |-> data]
metricsRoute(authorized, data) ==
    IF authorized THEN [threw |-> FALSE, status |-> 200, body |-> data]
    ELSE [threw |-> FALSE, status |-> 401, body |-> ErrorBody]

\* the handler withCache wraps, called with the request: the metrics route for a
\* request to /api/metrics (a request with an Authorization check), a data route
\* otherwise
HandlerOf(req, data) ==
    IF "authorized" \in DOMAIN req THEN {metricsRoute(req.authorized, data)}
    ELSE HandlerResponses(data)

IsErrorStatusNever(status) == FALSE
\* `response.status >= 400`: the response is not cached
IsErrorStatus(status) == status >= 400

CachedBodyDropped(entry) == ErrorBody
\* `new Response(response.body, ...)`: a hit answers with the body of the entry
CachedBody(entry) == entry.body

InitCache ==
    /\ cache = NoEntry
    /\ now = 0
    /\ origin = 0
    /\ reqs = [q \in Requests |-> IdleReq]
    /\ tasks = [q \in Requests |-> NoTask]

\* A request arrives. Non-GET requests and requests with ?nocache go straight to
\* the handler; a GET first awaits createCacheKey and cache.match.
Arrive(q) ==
    /\ reqs[q].pc \in {"idle", "done"}
    /\ tasks[q] = NoTask
    /\ \E method \in {"GET", "POST"} :
          reqs' = [reqs EXCEPT ![q] =
                     [IdleReq EXCEPT !.method = method,
                                     !.pc = IF method = "GET" THEN "match" ELSE "bypass"]]
    /\ UNCHANGED <<cache, now, origin, tasks, syncVars, fnVars>>

\* `return handler(request, env, ctx)` for a request that skips the cache
Bypass(q) ==
    /\ reqs[q].pc = "bypass"
    /\ \E status \in {200, 500} :
          reqs' = [reqs EXCEPT ![q] =
                     [@ EXCEPT !.pc = "done", !.status = status, !.awaited = TRUE,
                               !.body = IF status = 200 THEN origin ELSE ErrorBody]]
    /\ UNCHANGED <<cache, now, origin, tasks, syncVars, fnVars>>

\* cache.match(cacheKey) and the handling of a cached response
Match(q) ==
    /\ reqs[q].pc = "match"
    /\ LET ageInSeconds == now - cache.date
           hit(tag) == [reqs[q] EXCEPT !.pc = "done", !.status = cache.status,
                                       !.body = CachedBody(cache), !.xcache = "HIT",
                                       !.tag = tag, !.age = ageInSeconds,
                                       !.date = cache.date]
       IN IF cache.kind = "entry"
          THEN IF IsStale(ageInSeconds)
               THEN /\ reqs' = [reqs EXCEPT ![q] =
                                  [hit("STALE") EXCEPT !.revalidation =
                                      IF StaleTask = NoTask THEN "none" ELSE "pending"]]
                    /\ tasks' = [tasks EXCEPT ![q] = StaleTask]
               ELSE /\ reqs' = [reqs EXCEPT ![q] = hit("FRESH")]
                    /\ UNCHANGED tasks
          ELSE /\ reqs' = [reqs EXCEPT ![q].pc = "handler"]
               /\ UNCHANGED tasks
    /\ UNCHANGED <<cache, now, origin, syncVars, fnVars>>

\* the miss path: the handler is awaited; an error response is passed through, a
\* throw becomes a 500, a success is returned and its put handed to ctx.waitUntil
Miss(q) ==
    /\ reqs[q].pc = "handler"
    /\ \E response \in HandlerOf(reqs[q], origin) :
          IF response.threw
          THEN \* the catch block builds a 500
               /\ reqs' = [reqs EXCEPT ![q] =
                             [@ EXCEPT !.pc = "done", !.status = 500,
                                       !.body = ErrorBody, !.xcache = "BYPASS",
                                       !.tag = "ERROR", !.awaited = TRUE]]
               /\ UNCHANGED tasks
          ELSE IF IsErrorStatus(response.status)
          THEN /\ reqs' = [reqs EXCEPT ![q] =
                             [@ EXCEPT !.pc = "done", !.status = response.status,
                                       !.body = response.body, !.xcache = "BYPASS",
                                       !.tag = "ERROR", !.awaited = TRUE]]
               /\ UNCHANGED tasks
          ELSE /\ reqs' = [reqs EXCEPT ![q] =
                             [@ EXCEPT !.pc = "done", !.status = response.status,
                                       !.body = response.body, !.xcache = "MISS",
                                       !.tag = "MISS", !.awaited = TRUE]]
               /\ tasks' = [tasks EXCEPT ![q] =
                              [kind |-> "put", status |-> response.status,
                               body |-> response.body]]
    /\ UNCHANGED <<cache, now, origin, syncVars, fnVars>>

\* ctx.waitUntil(cache.put(cacheKey, cachedResponse.clone())) of the miss path
MissPut(q) ==
    /\ tasks[q].kind = "put"
    /\ cache' = Entry(tasks[q].status, tasks[q].body, now, "MISS")
    /\ tasks' = [tasks EXCEPT ![q] = NoTask]
    /\ UNCHANGED <<now, origin, reqs, syncVars, fnVars>>

\* revalidateCache: `await handler(request.clone(), env, ctx)`
RevalidateHandler(q) ==
    /\ tasks[q].kind = "revalidate_handler"
    /\ \E freshResponse \in HandlerOf(reqs[q], origin) :
          IF freshResponse.threw \/ IsErrorStatus(freshResponse.status)
          THEN \* the throw is caught and logged, the error response dropped
               /\ tasks' = [tasks EXCEPT ![q] = NoTask]
               /\ reqs' = [reqs EXCEPT ![q].revalidation = "failed"]
          ELSE \* the response is prepared for caching
               /\ tasks' = [tasks EXCEPT ![q] =
                              [kind |-> "revalidate_put",
                               status |-> freshResponse.status,
                               body |-> freshResponse.body]]
               /\ UNCHANGED reqs
    /\ UNCHANGED <<cache, now, origin, syncVars, fnVars>>

\* revalidateCache: `await cache.put(cacheKey, cachedResponse)`
RevalidatePut(q) ==
    /\ tasks[q].kind = "revalidate_put"
    /\ cache' = RevalidatedEntry(tasks[q].status, tasks[q].body, now)
    /\ tasks' = [tasks EXCEPT ![q] = NoTask]
    /\ reqs' = [reqs EXCEPT ![q].revalidation = "stored"]
    /\ UNCHANGED <<now, origin, syncVars, fnVars>>

\* time passes
Tick ==
    /\ now < MaxNow
    /\ now' = now + 1
    /\ UNCHANGED <<cache, origin, reqs, tasks, syncVars, fnVars>>

\* the data behind the handler changes
OriginUpdate ==
    /\ origin < MaxOrigin
    /\ origin' = origin + 1
    /\ UNCHANGED <<cache, now, reqs, tasks, syncVars, fnVars>>

NextCache ==
    \/ \E q \in Requests : Arrive(q)
    \/ \E q \in Requests : Bypass(q)
    \/ \E q \in Requests : Match(q)
    \/ \E q \in Requests : Miss(q)
    \/ \E q \in Requests : MissPut(q)
    \/ \E q \in Requests : RevalidateHandler(q)
    \/ \E q \in Requests : RevalidatePut(q)
    \/ Tick
    \/ OriginUpdate

----------------------------------------------------------------------------
(* The pure functions, applied to documents drawn from a bounded set:      *)
(* key derivation, calculateContentHash, analyzeBill without env.AI, and   *)
(* the validation that opens storeAnalysisResults.                         *)

\* "|" and "a": the separator of calculateContentHash and an ordinary character
FnAlphabet == {124, 97}
\* all texts over FnAlphabet of length at most n
FnTexts(n) == UNION {[1..k -> FnAlphabet] : k \in 0..n}

\* "HB 123", and identifiers without digits, without letters, and with both
FnIdentifiers ==
    {<<"H", "B", " ", "1", "2", "3">>, <<"H", "B">>, <<"1", "2", "3">>,
     <<"S", "B", " ", "2">>}

FnDocs ==
    {[Bill("ocd-bill/1", identifier, chamber, title, 1) EXCEPT !.abstract = abstract] :
        identifier \in FnIdentifiers, chamber \in {House, <<>>},
        title \in FnTexts(MaxTextLen) \cup Titles, abstract \in FnTexts(MaxTextLen)}

\* the documents a fingerprint is compared with: every text, two identifiers
FnTwins ==
    {d \in FnDocs : d.chamber = House /\ ~BillTypeFails(d.identifier)}

NoOut == [fn |-> "none"]

InitFn ==
    /\ doc \in FnDocs
    /\ twin \in FnTwins
    /\ out = NoOut

\* the key derivation of storeAnalysisResults and getExistingAnalysis:
\* getBillType, the chamber, getBillNumber, and the template literal
DeriveKey ==
    /\ out = NoOut
    /\ out' = IF BillTypeFails(doc.identifier) \/ BillNumberFails(doc.identifier)
              THEN [fn |-> "key", error |-> "ValidationError", key |-> <<>>]
              ELSE [fn |-> "key", error |-> "none", key |-> AnalysisKey(doc)]
    /\ UNCHANGED <<doc, twin, syncVars, cacheVars>>

\* the key derivation written out in processBillWithPersistentAnalysis, reached
\* when updateAnalysisIfNeeded has returned: `match(...)[1]` and `match(...)[0]`
\* on a failed match read a property of null
ProcessBillKey ==
    /\ out = NoOut
    /\ out' = IF MatchType(doc.identifier) = <<>> \/ MatchNumber(doc.identifier) = <<>>
              THEN [fn |-> "bill_key", error |-> "TypeError", key |-> <<>>]
              ELSE [fn |-> "bill_key", error |-> "none", key |-> AnalysisKey(doc)]
    /\ UNCHANGED <<doc, twin, syncVars, cacheVars>>

\* calculateContentHash of both documents
Fingerprint ==
    /\ out = NoOut
    /\ out' = [fn |-> "hash", first |-> calculateContentHash(doc),
               second |-> calculateContentHash(twin)]
    /\ UNCHANGED <<doc, twin, syncVars, cacheVars>>

\* analyzeBill with env.AI absent: the analyses are those of createSimplifiedAnalysis
AnalyzeWithoutAI ==
    /\ out = NoOut
    /\ out' = [fn |-> "analyze", analyses |-> createSimplifiedAnalysis(doc)]
    /\ UNCHANGED <<doc, twin, syncVars, cacheVars>>

\* the analyses a caller may hand to storeAnalysisResults
StoreInputs == {NoDimensions, PlainAnalyses, SignificantAnalyses}

\* the error storeAnalysisResults throws before its first put, "none" when it
\* reaches the puts: validateData of the bill and of the analysis, then
\* getBillType and getBillNumber
StoreRejection(bill, analyses) ==
    IF ~BillValid(bill) \/ ~hasImpactType(analyses)
       \/ BillTypeFails(bill.identifier) \/ BillNumberFails(bill.identifier)
    THEN "ValidationError" ELSE "none"

\* storeAnalysisResults(doc, analysis) on a store whose operations succeed: the
\* error it throws and the keys it has put, in order
StoreCall ==
    /\ out = NoOut
    /\ \E analyses \in StoreInputs :
          out' = [fn |-> "store", analyses |-> analyses,
                  error |-> StoreRejection(doc, analyses),
                  puts |-> IF StoreRejection(doc, analyses) = "none"
                           THEN <<AnalysisKey(doc), MappingKey(doc.id)>>
                           ELSE <<>>]
    /\ UNCHANGED <<doc, twin, syncVars, cacheVars>>

NextFn ==
    \/ DeriveKey
    \/ ProcessBillKey
    \/ Fingerprint
    \/ AnalyzeWithoutAI
    \/ StoreCall

----------------------------------------------------------------------------
(* analyzeWithAI and analyzeBill with env.AI present.  A JavaScript value   *)
(* of a response field is a record: its type, its text when it is a string *)
(* (the pieces of the template literal, in order), its value when it is a   *)
(* number.                                                                  *)

Undef == [t |-> "undefined", s |-> <<>>, n |-> 0]
Str(pieces) == [t |-> "string", s |-> pieces, n |-> 0]
Num(n) == [t |-> "number", s |-> <<>>, n |-> n]

\* the truthiness `||` tests: undefined, the empty string and 0 are falsy
Truthy(v) ==
    \/ v.t = "string" /\ v.s # <<>>
    \/ v.t = "number" /\ v.n # 0

\* value || 'default'
OrDefault(v, default) == IF Truthy(v) THEN v ELSE Str(<<default>>)

\* the scores a model may answer with: the schema asks for -5..5, the model
\* is not bound by it
MaxModelScore == 6
ModelScores == (-MaxModelScore)..MaxModelScore

\* response.response as an object: each field undefined, a string, or a number
ModelObjects ==
    {[kind |-> "object", summary |-> su, details |-> de, score |-> sc] :
        su \in {Undef, Str(<<"model summary">>), Num(7)},
        de \in {Undef, Str(<<"model details">>)},
        sc \in {Undef, Str(<<"3">>)} \cup {Num(n) : n \in ModelScores}}

\* what JSON.parse makes of a string: a SyntaxError, null, a primitive, an object
ParsedObjects ==
    {[kind |-> "object", summary |-> su, details |-> Str(<<"model details">>),
      score |-> sc] :
        su \in {Undef, Str(<<"model summary">>)}, sc \in {Undef, Num(MaxModelScore)}}
\* what the three regular expressions match in a string: the text after
\* "Summary:" and "Details:", trimmed (undefined without a match), and the
\* integer after "Score:"
Sections ==
    {[summary |-> su, details |-> de, score |-> sc] :
        su \in {Undef, Str(<<>>), Str(<<"section summary">>)},
        de \in {Undef, Str(<<"section details">>)},
        sc \in {Undef} \cup {Num(n) : n \in ModelScores}}
\* no match of the regular expressions, no property of a parsed primitive
NoFields == [summary |-> Undef, details |-> Undef, score |-> Undef]

\* response.response as a string: the texts "null" and "5" hold no label
ModelTexts ==
    {[kind |-> "string", json |-> j, sections |-> se] :
        j \in {[kind |-> "invalid"]} \cup ParsedObjects, se \in Sections}
      \cup {[kind |-> "string", json |-> [kind |-> j], sections |-> NoFields] :
               j \in {"null", "primitive"}}

\* response.response: an object, a string, undefined, null, a number
ModelResponses ==
    ModelObjects \cup ModelTexts
      \cup {[kind |-> k] : k \in {"undefined", "null", "number"}}

\* what ai.run does: it resolves with {response: ...} or with undefined, it
\* rejects with an Error, it never settles, or it throws a value that is not
\* an Error (null) before returning a promise
ModelBehaviours ==
    {[does |-> "resolves", response |-> r] : r \in ModelResponses}
      \cup {[does |-> d] : d \in {"resolves_undefined", "rejects", "hangs", "throws_null"}}

\* the object of the three fields a tier reads
FromFields(o) ==
    [summary |-> OrDefault(o.summary, "No summary available"),
     details |-> OrDefault(o.details, "No details available"),
     score |-> IF o.score.t = "number" THEN o.score.n ELSE 0]

\* summaryMatch ? summaryMatch[1].trim() : 'No summary available', and parseInt
FromSections(se) ==
    [summary |-> IF se.summary.t = "string" THEN se.summary
                 ELSE Str(<<"No summary available">>),
     details |-> IF se.details.t = "string" THEN se.details
                 ELSE Str(<<"No details available">>),
     score |-> IF se.score.t = "number" THEN se.score.n ELSE 0]

\* the else branch
UnexpectedFormat(type) ==
    [summary |-> Str(<<"Analysis for ", type, " returned in unexpected format.">>),
     details |-> Str(<<"The AI system returned a response in a format that could not be processed.">>),
     score |-> 0]

\* `parsed.summary` of a parsed null throws inside the try, so the catch runs
ParseCaughtNever(json) == FALSE
ParseCaught(json) == json.kind \in {"invalid", "null"}

\* let result: the if / else if / else of analyzeWithAI
ExtractResult(type, r) ==
    IF r.kind = "object" THEN FromFields(r)
    ELSE IF r.kind = "string"
    THEN IF ParseCaught(r.json) THEN FromSections(r.sections)
         ELSE IF r.json.kind = "object" THEN FromFields(r.json)
         ELSE FromFields(NoFields)
    ELSE UnexpectedFormat(type)

\* the return of the outer catch
CaughtResult(type, message) ==
    [summary |-> Str(<<"Analysis for ", type,
                       " could not be completed due to an error: ", message>>),
     details |-> Str(<<"The system encountered an error while analyzing this section.">>),
     score |-> 0, error |-> message]

\* the fallback response of the .catch on Promise.race
RaceFallbackScored(message) ==
    [kind |-> "object",
     summary |-> Str(<<"Unable to perform detailed analysis due to ", message, ".">>),
     details |-> Str(<<"The AI analysis service was unable to complete this request in a timely manner.">>),
     score |-> Num(1)]
RaceFallback(message) ==
    [kind |-> "object",
     summary |-> Str(<<"Unable to perform detailed analysis due to ", message, ".">>),
     details |-> Str(<<"The AI analysis service was unable to complete this request in a timely manner.">>),
     score |-> Num(0)]

\* what Promise.race settled with: the model's resolution, or the rejection of
\* the model or of the timeout
ModelWins(b) == [by |-> "model", does |-> b.does,
                 response |-> IF b.does = "resolves" THEN b.response
                              ELSE [kind |-> "undefined"]]
TimeoutWins == [by |-> "timeout", does |-> "rejects", response |-> [kind |-> "undefined"]]

\* analyzeWithAI from the settling of the race to its return
analyzeWithAI(type, won) ==
    IF won.does = "resolves_undefined"
    THEN CaughtResult(type, "TypeError")
    ELSE LET r == IF won.by = "timeout" THEN RaceFallback("AI analysis timeout for " \o type)
                  ELSE IF won.does = "rejects" THEN RaceFallback("model error")
                  ELSE won.response
             result == ExtractResult(type, r)
         IN IF r.kind = "undefined" \/ result.summary.t # "string"
            THEN CaughtResult(type, "TypeError")
            ELSE result

\* no result yet
NoResult == [summary |-> Undef, details |-> Undef, score |-> 0]

\* analyzeWithAI up to Promise.race: the timer is set, ai.run is called.  A
\* value thrown by ai.run that is not an Error reaches the outer catch, whose
\* `error.message` throws in turn: the call itself rejects.
StartCall ==
    /\ out = NoOut
    /\ \E type \in Dimensions, b \in ModelBehaviours :
          out' = [fn |-> "call", type |-> type, model |-> b,
                  pc |-> IF b.does = "throws_null" THEN "raised" ELSE "racing",
                  won |-> [by |-> "none"], result |-> NoResult,
                  modelSettled |-> b.does = "throws_null", timerFired |-> FALSE]
    /\ UNCHANGED <<doc, twin, syncVars, cacheVars>>

\* the race settles with `won` and analyzeWithAI returns; a promise that
\* settles after the race has no one listening
Settle(won) ==
    IF out.pc = "racing"
    THEN [out EXCEPT !.pc = "returned", !.won = won,
                     !.result = analyzeWithAI(out.type, won)]
    ELSE out

\* ai.run settles
ModelSettles ==
    /\ out.fn = "call"
    /\ ~out.modelSettled
    /\ out.model.does # "hangs"
    /\ out' = [Settle(ModelWins(out.model)) EXCEPT !.modelSettled = TRUE]
    /\ UNCHANGED <<doc, twin, syncVars, cacheVars>>

\* the 30 s timer fires (it is never cleared)
TimeoutFires ==
    /\ out.fn = "call"
    /\ ~out.timerFired
    /\ out' = [Settle(TimeoutWins) EXCEPT !.timerFired = TRUE]
    /\ UNCHANGED <<doc, twin, syncVars, cacheVars>>

\* analysisTypes, in the order of the for loop
analysisTypes ==
    <<"tax_impact", "budget_impact", "societal_impact", "institutional_alignment">>

\* a dimension of createSimplifiedAnalysis as an object; null is falsy
SimplifiedDimension(type, wording) ==
    IF type = "institutional_alignment"
    THEN [summary |-> Str(<<"Insufficient data for institutional alignment analysis.">>),
          details |-> Str(<<"Simplified analysis cannot determine institutional alignments without AI processing.">>),
          score |-> 0]
    ELSE [summary |-> Str(<<"Potential ", wording, " ", type,
                            " implications based on keyword analysis.">>),
          details |-> Str(<<"This bill contains keywords of ", type>>),
          score |-> 0]

\* catch (typeError): createSimplifiedAnalysis(bill)[type] || {summary: ...}
TypeCaught(bill, type, message) ==
    IF createSimplifiedAnalysis(bill)[type] # "null"
    THEN SimplifiedDimension(type, createSimplifiedAnalysis(bill)[type])
    ELSE [summary |-> Str(<<"Analysis failed: ", message>>),
          details |-> Str(<<"An error occurred while analyzing this aspect of the bill.">>),
          score |-> 0]

\* what the model does for one dimension of analyzeBill: a result within the
\* schema, a score outside it, a response without `response`, a text that is
\* neither JSON nor labelled, a rejection, no answer within 30 s, a throw
BillBehaviours ==
    {[does |-> "resolves",
      response |-> [kind |-> "object", summary |-> Str(<<"model summary">>),
                    details |-> Str(<<"model details">>), score |-> Num(n)]] :
        n \in {3, MaxModelScore}}
      \cup {[does |-> "resolves", response |-> [kind |-> "undefined"]],
            [does |-> "resolves",
             response |-> [kind |-> "string", json |-> [kind |-> "invalid"],
                           sections |-> NoFields]]}
      \cup {[does |-> d] : d \in {"rejects", "hangs", "throws_null"}}

\* the for loop goes on to the next type, whether the call returned or threw
AfterDimensionAborts(at) == Len(analysisTypes) + 1
AfterDimension(at) == at + 1

\* analyzeBill with env.AI present, up to the first call of analyzeWithAI
StartBill ==
    /\ out = NoOut
    /\ out' = [fn |-> "bill", at |-> 1, outcomes |-> <<>>,
               analyses |-> [d \in Dimensions |-> NoResult]]
    /\ UNCHANGED <<doc, twin, syncVars, cacheVars>>

\* one round of the for loop: analyzeWithAI for analysisTypes[at], its result
\* or the result of catch (typeError) assigned, then the delay; after the last
\* type analyzeBill returns analysisResult
AnalyzeDimension ==
    /\ out.fn = "bill"
    /\ out.at <= Len(analysisTypes)
    /\ \E b \in BillBehaviours :
          LET type == analysisTypes[out.at]
              result == IF b.does = "throws_null"
                        THEN TypeCaught(doc, type, "TypeError")
                        ELSE analyzeWithAI(type, IF b.does = "hangs" THEN TimeoutWins
                                                 ELSE ModelWins(b))
          IN out' = [out EXCEPT !.at = AfterDimension(out.at),
                                !.outcomes = Append(@, b),
                                !.analyses[type] = result]
    /\ UNCHANGED <<doc, twin, syncVars, cacheVars>>

\* the documents analyzeBill is called with: titles with one tax keyword
\* ("Tax"), one keyword three times, two keywords, three keywords, none
AiDocs ==
    {Bill("ocd-bill/1", <<"H", "B", " ", "1">>, House, title, 1) :
        title \in
           {TitleA,
            <<116, 97, 120, 32, 116, 97, 120, 32, 116, 97, 120>>,
            <<116, 97, 120, 32, 108, 101, 118, 121>>,
            <<116, 97, 120, 32, 108, 101, 118, 121, 32, 105, 110, 99, 111, 109, 101>>,
            TitleB}}

\* the analyses shouldHighlightBill is called with: none, or one with any
\* wording in each dimension
HighlightInputs ==
    {Absent} \cup
    {AnalysisResult(doc, [d \in Dimensions |->
                            CASE d = "tax_impact" -> tax
                              [] d = "budget_impact" -> budget
                              [] d = "societal_impact" -> societal
                              [] OTHER -> institutional], 1) :
        tax \in Wordings, budget \in Wordings, societal \in Wordings,
        institutional \in {"insufficient", "significant", "Major"}}

\* shouldHighlightBill(analysis)
ShouldHighlight ==
    /\ out = NoOut
    /\ \E analysis \in HighlightInputs :
          out' = [fn |-> "highlight", analysis |-> analysis,
                  highlight |-> shouldHighlightBill(analysis)]
    /\ UNCHANGED <<doc, twin, syncVars, cacheVars>>

InitAi ==
    /\ doc \in AiDocs
    /\ twin = Bill1(1)
    /\ out = NoOut

NextAi ==
    \/ StartCall
    \/ ModelSettles
    \/ TimeoutFires
    \/ StartBill
    \/ AnalyzeDimension
    \/ AnalyzeWithoutAI
    \/ ShouldHighlight

----------------------------------------------------------------------------
(* Specifications *)

\* the sync side at rest: an empty store, an empty feed, no pass
SyncAtRest ==
    /\ kvData = [k \in DataKeys |-> Absent]
    /\ kvMeta = [last_update_timestamp |-> <<>>, analysis_summaries |-> {}]
    /\ feed = <<>>
    /\ run = [r \in Triggers |-> IdleRun]
    /\ passes = 0
    /\ settled = [id \in BillIds |-> <<>>]
    /\ faults = 0

\* the pure functions not in use
FnAtRest ==
    /\ doc = Bill1(1)
    /\ twin = Bill1(1)
    /\ out = NoOut

\* Two overlapping passes (the cron trigger and the manual trigger) over a page of
\* two documents, each about to call addBillToHighlightIndex for a document whose
\* analysis says "significant"; the documents, their analyses and mappings are in
\* the store, the highlight index is absent or holds one of the identifiers.
HighlightPage == <<Bill1(1), Bill2(MaxTime)>>
HighlightCall(i, time) ==
    [IdleRun EXCEPT !.pc = "hl_get", !.time = time, !.since = DefaultLookback,
                    !.newest = MaxTime, !.doneMax = DefaultLookback,
                    !.results = HighlightPage, !.total_pages = 1, !.i = i,
                    !.analysis = AnalysisResult(HighlightPage[i], SignificantAnalyses, time),
                    !.overlap = TRUE,
                    !.processed = SubSeq(<<HighlightPage[1].identifier>>, 1, i - 1)]
HighlightStore(index) ==
    [k \in DataKeys |->
       IF k = HighlightKey THEN index
       ELSE IF k = CategoryKey
       THEN List(<<HighlightPage[1].identifier, HighlightPage[2].identifier>>)
       ELSE IF \E i \in 1..2 : k = AnalysisKey(HighlightPage[i])
       THEN LET bill == CHOOSE b \in {HighlightPage[1], HighlightPage[2]} :
                           k = AnalysisKey(b)
            IN AnalysisData(bill, AnalysisResult(bill, SignificantAnalyses, 1), 1)
       ELSE IF \E i \in 1..2 : k = MappingKey(HighlightPage[i].id)
       THEN LET bill == CHOOSE b \in {HighlightPage[1], HighlightPage[2]} :
                           k = MappingKey(b.id)
            IN Text(AnalysisKey(bill))
       ELSE LET bill == CHOOSE b \in {HighlightPage[1], HighlightPage[2]} :
                           k = BillKey(b.identifier)
            IN EnhancedBill(bill)]

InitHighlight ==
    /\ kvData \in {HighlightStore(index) :
                     index \in {Absent} \cup
                               {List(<<HighlightPage[i].identifier>>) : i \in 1..2}}
    /\ kvMeta = [last_update_timestamp |-> <<>>, analysis_summaries |-> {}]
    /\ feed = <<HighlightPage>>
    /\ run \in {[r \in Triggers |->
                   IF r = "cron" THEN HighlightCall(i, 1) ELSE HighlightCall(j, 2)] :
                   i \in 1..2, j \in 1..2}
    /\ passes = MaxPasses
    /\ settled = [id \in BillIds |-> <<>>]
    /\ faults = 0

\* addBillToHighlightIndex, called by overlapping passes
NextHighlight ==
    \/ \E r \in Triggers : HlGet(r)
    \/ \E r \in Triggers : HlPut(r)

InitSyncOnly == InitSync /\ InitCache /\ FnAtRest
InitHighlightOnly == InitHighlight /\ InitCache /\ FnAtRest
InitCacheOnly == SyncAtRest /\ InitCache /\ FnAtRest
InitFnOnly == SyncAtRest /\ InitCache /\ InitFn
InitAiOnly == SyncAtRest /\ InitCache /\ InitAi

\* the sync passes and the analysis store (the cache is left at rest)
SpecSync == InitSyncOnly /\ [][NextSync]_vars

\* the cache (the sync side is left at rest)
SpecCache == InitCacheOnly /\ [][NextCache]_vars

\* addBillToHighlightIndex under overlapping passes (the cache is left at rest)
SpecHighlight == InitHighlightOnly /\ [][NextHighlight]_vars

\* the pure functions (the sync side and the cache are left at rest)
SpecFn == InitFnOnly /\ [][NextFn]_vars

\* analyzeWithAI and analyzeBill (the sync side and the cache are left at rest)
SpecAi == InitAiOnly /\ [][NextAi]_vars

----------------------------------------------------------------------------
(* Properties of the sync pass and of the analysis store (SpecSync) *)

\* the positions of a pass inside processBillWithPersistentAnalysis
BillPcs ==
    {"get_mapping", "get_mapped", "get_constructed", "put_lazy_mapping", "analyze",
     "store_put", "store_map", "store_verify", "put_bill", "idx", "hl_get", "hl_put"}
\* the positions at which analyzeBill is about to be called or storeAnalysisResults
\* is running
AnalyzePcs == {"analyze", "store_put", "store_map", "store_verify"}
\* the positions after updateAnalysisIfNeeded has returned an analysis
AfterUpdatePcs == {"put_bill", "idx", "hl_get", "hl_put"}

\* the pass of r overlaps no other pass and is at a document that an earlier such
\* pass processed successfully and that has not changed since
SecondRunUnchanged(r) ==
    /\ run[r].pc \in BillPcs
    /\ ~run[r].overlap
    /\ run[r].prior[CurBill(r).id] = CurBill(r).title

\* C1: in a second sync pass over a document that is unchanged since a first pass
\* processed it, analyzeBill and storeAnalysisResults are not called for the
\* document, and what updateAnalysisIfNeeded works with is the Analysis the store
\* holds, as returned by getExistingAnalysis.
C1_SecondRunReusesAnalysis ==
    \A r \in Triggers :
       SecondRunUnchanged(r) =>
          /\ run[r].pc \notin AnalyzePcs
          /\ run[r].analysis.kind # "result"
          /\ run[r].storeLog = <<>>
          /\ run[r].pc \in AfterUpdatePcs =>
                /\ run[r].existing.kind = "analysis"
                /\ run[r].analysis = run[r].existing
                /\ run[r].existing = kvData[AnalysisKey(CurBill(r))]

\* a second pass has got the stored Analysis of the unchanged document back
C1_Witness ==
    \E r \in Triggers :
       /\ SecondRunUnchanged(r)
       /\ run[r].time = 2
       /\ run[r].pc = "put_bill"
       /\ run[r].existing.kind = "analysis"
       /\ run[r].existing.analysis_timestamp = 1

\* C5 as stated: storeAnalysisResults returns the key only if what it read back is
\* the value it wrote.
C5_ReadbackMatchesWritten ==
    \A r \in Triggers :
       run[r].stored = "ok" => run[r].verifyData = run[r].analysisData

\* the order of the steps of storeAnalysisResults
StoreOrder == <<"validate", "put_analysis", "put_mapping", "get_analysis">>

\* C6: storeAnalysisResults validates, writes the Analysis under the canonical key,
\* writes the reverse mapping, reads the canonical key back, and returns the key
\* only after the readback; the mapping is never written before the canonical key.
C6_StoreOrder ==
    \A r \in Triggers :
       /\ Len(run[r].storeLog) <= Len(StoreOrder)
       /\ run[r].storeLog = SubSeq(StoreOrder, 1, Len(run[r].storeLog))
       /\ run[r].stored = "ok" => run[r].storeLog = StoreOrder

\* storeAnalysisResults has returned the key after all four steps
C6_Witness ==
    \E r \in Triggers :
       /\ run[r].stored = "ok"
       /\ run[r].storeLog = StoreOrder
       /\ kvData[MappingKey(CurBill(r).id)] = Text(AnalysisKey(CurBill(r)))

\* the reverse mapping of the current document of r names its canonical key
MappingPresent(r) ==
    kvData[MappingKey(CurBill(r).id)] = Text(AnalysisKey(CurBill(r)))

\* C7 as stated: when getExistingAnalysis has found the Analysis through the
\* reconstructed key and returns, the reverse mapping is present in the store.
C7_MappingPresentOnReturn ==
    \A r \in Triggers :
       run[r].lazyMapping # "no" => MappingPresent(r)

\* C7, amended: an Analysis under the reconstructed key is found through it, and
\* when getExistingAnalysis returns the reverse mapping is present provided the
\* put of the mapping succeeded; a failed put is logged and leaves it absent.
C7_MappingPresentUnlessPutFailed ==
    \A r \in Triggers :
       run[r].lazyMapping # "no" =>
          /\ run[r].found.kind = "analysis"
          /\ run[r].lazyMapping = "written" => MappingPresent(r)

\* the Analysis was found through the reconstructed key and the mapping recreated
C7_Witness ==
    \E r \in Triggers :
       /\ run[r].lazyMapping = "written"
       /\ run[r].found.kind = "analysis"
       /\ MappingPresent(r)

\* C8: once the fetch of a page has failed the page loop has ended (no later page
\* is fetched or processed), and the watermark is not beyond the newest document
\* of the pages fetched and fully processed before the failure.
C8_FetchFailureStopsLoop ==
    \A r \in Triggers :
       run[r].fetchFailed =>
          /\ run[r].pc \in {"summaries", "done"}
          /\ run[r].newest <= run[r].doneMax

\* the fetch of the second page failed after the first page had been processed
C8_Witness ==
    \E r \in Triggers :
       /\ run[r].fetchFailed
       /\ run[r].pc = "done"
       /\ run[r].page = 2
       /\ run[r].processed # <<>>
       /\ Len(feed) = 2

\* C9: the newestUpdateTimestamp that updateBillsWithPersistentAnalysis returns is
\* never earlier than the lastUpdateTimestamp it was given.
C9_WatermarkNotEarlier ==
    \A r \in Triggers :
       run[r].pc \in {"summaries", "done"} => run[r].newest >= run[r].since

\* a pass over a page whose newest document is older than the timestamp given
C9_Witness ==
    \E r \in Triggers :
       /\ run[r].pc = "done"
       /\ run[r].processed # <<>>
       /\ \A p \in 1..Len(feed) : \A i \in 1..Len(feed[p]) :
             feed[p][i].updated_at < run[r].since
       /\ run[r].newest = run[r].since

\* C10 as stated: after a scheduled pass has completed, the watermark it computed
\* is stored as last_update_timestamp.
C10_WatermarkPersisted ==
    \A r \in Triggers :
       run[r].pc = "done" => kvMeta.last_update_timestamp = <<run[r].newest>>

\* the updated_at of the documents of the non-empty pages a pass has fetched, once
\* its page loop has ended: page is one more than the number of those pages
FetchedTimes(r) ==
    UNION {{feed[p][i].updated_at : i \in 1..Len(feed[p])} :
              p \in {n \in 1..Len(feed) : n < run[r].page}}

\* C27: when the page loop of a pass has ended, newestUpdateTimestamp is the
\* maximum of the lastUpdateTimestamp given and the updated_at of every document
\* of every non-empty page the pass fetched, whether or not the documents were
\* processed successfully.
C27_WatermarkIsMaxFetched ==
    \A r \in Triggers :
       run[r].pc = "summaries" =>
          LET times == FetchedTimes(r) \cup {run[r].since}
          IN /\ run[r].newest \in times
             /\ \A t \in times : t <= run[r].newest

\* a pass has ended whose page held two documents, the later one newer than the
\* timestamp given, of which one was not processed successfully
C27_Witness ==
    \E r \in Triggers :
       /\ run[r].pc = "summaries"
       /\ Len(feed) = 1 /\ Len(feed[1]) = 2
       /\ run[r].page = 2
       /\ Len(run[r].processed) = 1
       /\ feed[1][2].updated_at > feed[1][1].updated_at
       /\ run[r].newest = feed[1][2].updated_at
       /\ run[r].newest > run[r].since

\* the identifiers in the highlight index
Highlighted == ItemsOf(kvData[HighlightKey])

\* C28 as stated: an identifier once present in the highlight index is never
\* removed, whatever the interleaving of the passes that add to it.
C28_HighlightNeverRemoved ==
    [][\A j \in 1..Len(Highlighted) :
          \E k \in 1..Len(Highlighted') : Highlighted'[k] = Highlighted[j]]_vars

\* neither the index nor a list about to be put holds an identifier twice, and
\* the list about to be put ends with the identifier of the document
HighlightDuplicateFree ==
    /\ \A j, k \in 1..Len(Highlighted) : Highlighted[j] = Highlighted[k] => j = k
    /\ \A r \in Triggers :
          run[r].pc = "hl_put" =>
             /\ \A j, k \in 1..Len(run[r].list) :
                   run[r].list[j] = run[r].list[k] => j = k
             /\ run[r].list[Len(run[r].list)] = CurBill(r).identifier

\* C29: the highlight index never holds an identifier twice, under every
\* interleaving of addBillToHighlightIndex calls; and a call that finds the
\* identifier of its document in the index returns in that step without a put,
\* the index as it was.
C29_HighlightNoDuplicates ==
    /\ []HighlightDuplicateFree
    /\ [][\A r \in Triggers :
             (/\ run[r].pc = "hl_get"
              /\ run'[r] # run[r]
              /\ \E j \in 1..Len(Highlighted) :
                    Highlighted[j] = CurBill(r).identifier) =>
                /\ run'[r].pc # "hl_put"
                /\ kvData' = kvData]_vars

\* both passes have called addBillToHighlightIndex for the same document, the
\* second finding the identifier the first had put, and the index holds it once
C29_Witness ==
    /\ \A r \in Triggers : run[r].pc = "summaries" /\ Len(run[r].processed) = 2
    /\ Len(Highlighted) = 1
    /\ Highlighted[1] = HighlightPage[2].identifier
    /\ faults = 0

\* updateAnalysisIfNeeded has returned to a pass that overlaps no other, after
\* getExistingAnalysis read an Analysis made for another title of the document
TitleChangedSinceAnalysis(r) ==
    /\ run[r].pc \in AfterUpdatePcs
    /\ ~run[r].overlap
    /\ run[r].found.kind = "analysis"
    /\ run[r].found.bill_title # CurBill(r).title

StoredFirstAnalysis(r) ==
    /\ run[r].pc \in AfterUpdatePcs
    /\ run[r].stored = "ok"
    /\ run[r].found = Absent

\* C14: after a pass has analyzed and stored a document that had no Analysis, the
\* store holds under the document's analysis key an Analysis with at least one
\* dimension whose content_hash is the fingerprint of the document, and the
\* mapping of the document's id holds that key.
C14_FirstAnalysisStored ==
    \A r \in Triggers :
       StoredFirstAnalysis(r) =>
          LET bill == CurBill(r)
              data == kvData[AnalysisKey(bill)]
          IN /\ data.kind = "analysis"
             /\ hasImpactType(data.analyses)
             /\ data.content_hash = calculateContentHash(bill)
             /\ data.bill_id = bill.id
             /\ MappingPresent(r)

\* the first pass has stored the Analysis of a document new to the store
C14_Witness ==
    \E r \in Triggers :
       /\ StoredFirstAnalysis(r)
       /\ ~run[r].overlap
       /\ run[r].time = 1
       /\ run[r].pc = "put_bill"
       /\ kvData[AnalysisKey(CurBill(r))] = run[r].analysisData
       /\ kvData[BillKey(CurBill(r).identifier)] = Absent

\* C18 as stated: an Analysis that getExistingAnalysis finds in the store is
\* returned to the caller, fresh or stale.
C18_FoundIsReturned ==
    \A r \in Triggers :
       (run[r].pc \in AnalyzePcs \cup AfterUpdatePcs /\ run[r].found.kind = "analysis")
          => run[r].existing = run[r].found

\* the run is inside processBillWithPersistentAnalysis for a document
InDocument(r) == Active(r) /\ run[r].pc \notin {"get_ts", "fetch", "summaries"}

\* the keys processBillWithPersistentAnalysis reads and writes for a document
KeysOfDocument(bill) ==
    {MappingKey(bill.id), AnalysisKey(bill), BillKey(bill.identifier),
     CategoryKey, HighlightKey}

HasPut(r) ==
    /\ run[r].pc \in {"store_map", "store_verify"}
    /\ Includes(run[r].storeLog, "put_analysis")

\* the store under the key of a document that two runs are storing, and the
\* mapping of a document whose store has returned
LastWriteHeld ==
    /\ \A r, o \in Triggers :
          (r # o /\ HasPut(r) /\ HasPut(o) /\ CurBill(r).id = CurBill(o).id) =>
             kvData[AnalysisKey(CurBill(r))] \in {run[r].analysisData, run[o].analysisData}
    /\ \A r \in Triggers :
          (run[r].pc = "put_bill" /\ run[r].stored = "ok") =>
             /\ kvData[MappingKey(CurBill(r).id)] = Text(AnalysisKey(CurBill(r)))
             /\ kvData[AnalysisKey(CurBill(r))].kind = "analysis"

\* C32: when two runs store an analysis under the same key, each put replaces
\* the value as a whole by the analysis of the run that makes it, so the store
\* holds the analysis written last, all of its fields from one run; and when a
\* store has returned, the reverse mapping of the document names that key.
C32_LastWriteWinsWhole ==
    /\ []LastWriteHeld
    /\ [][\A bill \in FeedDocs :
             kvData'[AnalysisKey(bill)] # kvData[AnalysisKey(bill)] =>
                \E r \in Triggers :
                   /\ run[r].pc = "store_put"
                   /\ run'[r] # run[r]
                   /\ AnalysisKey(CurBill(r)) = AnalysisKey(bill)
                   /\ kvData'[AnalysisKey(bill)] = run[r].analysisData]_vars

\* both runs have put their analysis of the same document, the manual run last
C32_Witness ==
    /\ HasPut("cron") /\ HasPut("manual")
    /\ CurBill("cron").id = CurBill("manual").id
    /\ run["cron"].analysisData # run["manual"].analysisData
    /\ kvData[AnalysisKey(CurBill("cron"))] = run["manual"].analysisData

\* the pass of r takes a step (the start of another pass only marks it as overlapped)
Stepped(r) == [run'[r] EXCEPT !.overlap = run[r].overlap] # run[r]

\* what the page loop does in one step of the pass of r: a fetch leaves `page`
\* alone and is followed by the first document of a page that has documents or by
\* the end of the loop; the loop goes from a document back to the fetch only with
\* page + 1, and only when the page just done is below total_pages
PageLoopStep(r) ==
    /\ (run[r].pc = "fetch" /\ Stepped(r)) =>
          /\ run'[r].page = run[r].page
          /\ run'[r].pc \in {"get_mapping", "summaries"}
          /\ run'[r].pc = "get_mapping" =>
                /\ ~run'[r].fetchFailed
                /\ run'[r].results # <<>>
                /\ run'[r].results = feed[run[r].page]
    /\ (InDocument(r) /\ Stepped(r)) =>
          /\ run'[r].page \in {run[r].page, run[r].page + 1}
          /\ run'[r].pc = "fetch" =>
                /\ run'[r].page = run[r].page + 1
                /\ run[r].page < run[r].total_pages
                /\ run[r].i = Len(run[r].results)
          /\ run'[r].page = run[r].page + 1 => run'[r].pc \in {"fetch", "summaries"}

\* the place of a step within the processing of one document
StepOrder ==
    <<"fetch", "get_mapping", "get_mapped", "get_constructed", "put_lazy_mapping",
      "analyze", "store_put", "store_map", "store_verify", "put_bill", "idx",
      "hl_get", "hl_put">>
StepRank(pc) == CHOOSE k \in 1..Len(StepOrder) : StepOrder[k] = pc
InPageLoop(r) == run[r].pc = "fetch" \/ InDocument(r)

\* a measure of the progress of the page loop: the page, then the document of the
\* page, then the step within the document; it is bounded by the feed
MaxPageLen == 2
LoopMeasure(rec) ==
    (rec.page * (MaxPageLen + 1) + rec.i) * (Len(StepOrder) + 1) + StepRank(rec.pc)

\* C40: updateBillsWithPersistentAnalysis returns for every feed: every step of
\* the loop either ends it or increases a measure that total_pages and the length
\* of a page bound. The loop fetches
\* page 1 and after it only pages up to the total_pages the feed reported, each
\* once and in order; it ends at the first page without documents, at the first
\* failed fetch, or when the page done is the last one; whatever happens while a
\* document is processed, the loop goes on to the next document or the next
\* page, never back to a page it has fetched.
C40_PageLoopTerminates ==
    /\ [](\A r \in Triggers :
             /\ run[r].pc = "fetch" =>
                   (run[r].page = 1 \/ run[r].page <= run[r].total_pages)
             /\ InDocument(r) =>
                   /\ run[r].page <= run[r].total_pages
                   /\ run[r].i <= Len(run[r].results)
                   /\ Len(run[r].results) <= MaxPageLen)
    /\ [][\A r \in Triggers : PageLoopStep(r)]_vars
    /\ [][\A r \in Triggers :
             (InPageLoop(r) /\ Stepped(r)) =>
                \/ run'[r].pc = "summaries"
                \/ /\ InPageLoop(r)'
                   /\ LoopMeasure(run'[r]) > LoopMeasure(run[r])]_vars

\* the scheduled pass is at the document of page 2 of a feed of two pages, after
\* the processing of the document of page 1 has failed on a KV operation
C40_Witness ==
    /\ Len(feed) = 2
    /\ run["cron"].page = 2
    /\ run["cron"].pc = "get_mapping"
    /\ run["cron"].processed = <<>>
    /\ ~run["cron"].fetchFailed
    /\ faults = 1

----------------------------------------------------------------------------
(* Properties of the cache (SpecCache) *)

\* the age of the stored entry is inside the stale window, boundaries excluded
InsideStaleWindow ==
    /\ cache.kind = "entry"
    /\ now - cache.date > CacheTtl
    /\ now - cache.date < CacheTtl + StaleWhileRevalidateTtl

Revalidating(q) == tasks[q].kind \in {"revalidate_handler", "revalidate_put"}

\* C3 as stated: two GETs answered STALE from the same stored entry trigger one
\* revalidation in total.
C3_OneRevalidation ==
    \A q1, q2 \in Requests :
       (/\ q1 # q2
        /\ reqs[q1].tag = "STALE" /\ reqs[q2].tag = "STALE"
        /\ reqs[q1].date = reqs[q2].date
        /\ cache.kind = "entry" /\ cache.date = reqs[q1].date)
       => ~(Revalidating(q1) /\ Revalidating(q2))

\* C4 as stated, for the ages beyond freshTTL+staleTTL: the stored body of such an
\* entry is not returned; the handler is invoked and the response tagged MISS.
C4_ExpiredIsMiss ==
    \A q \in Requests :
       (reqs[q].pc = "done" /\ reqs[q].age > CacheTtl + StaleWhileRevalidateTtl) =>
          /\ reqs[q].xcache # "HIT"
          /\ reqs[q].tag = "MISS"
          /\ reqs[q].awaited

\* a put of a handler response is registered with ctx.waitUntil or awaited
Putting(q) == tasks[q].kind \in {"put", "revalidate_put"}

\* C11: the cache holds no error response: the stored entry, and every response
\* the miss path or a revalidation is about to put, has a status below 400 and is
\* not the body of an error; a request whose handler answered an error or threw
\* on the miss path, and a revalidation whose handler did, leave no put behind.
C11_NoErrorResponseCached ==
    /\ cache.kind = "entry" => (cache.status < 400 /\ cache.body # ErrorBody)
    /\ \A q \in Requests :
          /\ Putting(q) => (tasks[q].status < 400 /\ tasks[q].body # ErrorBody)
          /\ reqs[q].tag = "ERROR" => tasks[q] = NoTask
          /\ reqs[q].revalidation = "failed" => tasks[q] = NoTask

\* one request got the handler's error on the miss path, the revalidation started
\* by the other failed, and the cache holds the successful response stored between
C11_Witness ==
    \E q, p \in Requests :
       /\ reqs[q].pc = "done" /\ reqs[q].tag = "ERROR" /\ reqs[q].status >= 400
       /\ reqs[p].pc = "done" /\ reqs[p].tag = "STALE"
       /\ reqs[p].revalidation = "failed"
       /\ cache.kind = "entry" /\ cache.status = 200 /\ cache.xcache = "MISS"

C26_TagsByHalfOpenWindows ==
    \A q \in Requests :
       (reqs[q].pc = "done" /\ reqs[q].xcache = "HIT") =>
          /\ reqs[q].tag = "FRESH" <=> reqs[q].age < CacheTtl
          /\ reqs[q].tag = "STALE" <=>
                (reqs[q].age >= CacheTtl
                   /\ reqs[q].age < CacheTtl + StaleWhileRevalidateTtl)

----------------------------------------------------------------------------
(* Properties of analyzeWithAI and analyzeBill (SpecAi) *)

\* a call of analyzeWithAI whose race is decided
Decided == out.fn = "call" /\ out.pc # "racing"

\* the result after a timeout, and after a response of the model
RaceOutcome ==
    Decided =>
       /\ out.won.by = "timeout" =>
             /\ out.pc = "returned"
             /\ out.result.score = 0
             /\ out.result.summary =
                   Str(<<"Unable to perform detailed analysis due to ",
                         "AI analysis timeout for " \o out.type, ".">>)
             /\ "error" \notin DOMAIN out.result
       /\ (out.won.by = "model" /\ out.model.does = "resolves") =>
             /\ out.pc = "returned"
             /\ out.result = analyzeWithAI(out.type, ModelWins(out.model))
             /\ (/\ out.model.response.kind = "object"
                 /\ out.model.response.summary = Str(<<"model summary">>)
                 /\ out.model.response.score.t = "number") =>
                   /\ out.result.summary = out.model.response.summary
                   /\ out.result.score = out.model.response.score.n

\* C22: when the timeout fires before the model settles, analyzeWithAI returns
\* (it does not raise) a result with score 0 whose summary names the timeout;
\* when the model responds first, the result is the one derived from its
\* response; and whichever of the two settles later changes nothing.
C22_RaceDecidesResult ==
    /\ []RaceOutcome
    /\ [][Decided =>
             /\ out'.pc = out.pc
             /\ out'.won = out.won
             /\ out'.result = out.result]_vars

\* the timeout fired first, then the model responded with an object
C22_Witness ==
    /\ Decided
    /\ out.won.by = "timeout"
    /\ out.timerFired /\ out.modelSettled
    /\ out.model.does = "resolves"
    /\ out.model.response.kind = "object"
    /\ out.model.response.score = Num(3)
    /\ out.result.score = 0

\* a call of analyzeWithAI that returned after the model resolved with a response
Responded ==
    /\ out.fn = "call"
    /\ out.pc = "returned"
    /\ out.won.by = "model"
    /\ out.model.does = "resolves"

\* the tier the response falls to, by the order object, JSON, sections
TierResult(type, r) ==
    CASE r.kind = "object" -> FromFields(r)
      [] r.kind = "string" /\ r.json.kind = "object" -> FromFields(r.json)
      [] r.kind = "string" /\ r.json.kind \in {"null", "primitive"} -> FromFields(NoFields)
      [] r.kind = "string" /\ r.json.kind = "invalid" -> FromSections(r.sections)
      [] OTHER -> UnexpectedFormat(type)

\* a result of the error handler or of the else branch
Diagnostic(result) ==
    /\ result.score = 0
    /\ \/ "error" \in DOMAIN result
       \/ result.summary = UnexpectedFormat(out.type).summary

\* C23 as stated: the result is that of the first tier that applies (object,
\* then JSON, then the labelled sections), and a diagnostic result with score
\* 0 is produced only if no tier applies.
C23_OneTierInOrder ==
    Responded =>
       /\ out.model.response.kind \in {"object", "string"} =>
             /\ out.result = TierResult(out.type, out.model.response)
             /\ ~Diagnostic(out.result)
       /\ out.model.response.kind \notin {"object", "string"} =>
             Diagnostic(out.result)

\* C23, amended: the result is that of the first tier that applies, with the
\* fields of that tier alone, unless the summary that tier yields is not a
\* string: then, as when the response has no tier, the result is a diagnostic
\* one with score 0.
C23_OneTierUnlessSummaryUnusable ==
    Responded =>
       LET r == out.model.response
           tier == TierResult(out.type, r)
       IN /\ (r.kind \in {"object", "string"} /\ tier.summary.t = "string") =>
                /\ out.result = tier
                /\ ~Diagnostic(out.result)
          /\ (r.kind \notin {"object", "string"} \/ tier.summary.t # "string") =>
                Diagnostic(out.result)

\* a text that is not JSON, with labelled sections, answered by the model
C23_Witness ==
    /\ Responded
    /\ out.model.response.kind = "string"
    /\ out.model.response.json.kind = "invalid"
    /\ out.model.response.sections.summary = Str(<<"section summary">>)
    /\ out.model.response.sections.score = Num(-3)
    /\ out.result.summary = Str(<<"section summary">>)
    /\ out.result.score = -3

\* the model failed for a dimension: it threw, rejected, did not answer in
\* time, or answered with something that is neither an object nor a string
\* with content
Failed(b) == b.does # "resolves" \/ b.response.kind # "object"

\* analyzeBill has returned
Returned == out.fn = "bill" /\ out.at = Len(analysisTypes) + 1

\* C21: whatever the model does for each of the four dimensions, every
\* dimension is attempted in turn, and analyzeBill returns an analysis in
\* which every dimension holds a result: a degraded one with score 0 where the
\* model failed, the model's own where it did not.
C21_FailuresDoNotAbort ==
    out.fn = "bill" =>
       /\ Len(out.outcomes) = out.at - 1
       /\ \A k \in 1..Len(out.outcomes) :
             LET result == out.analyses[analysisTypes[k]]
             IN /\ result.summary.t = "string"
                /\ result.summary.s # <<>>
                /\ Failed(out.outcomes[k]) =>
                      /\ result.score = 0
                      /\ result.summary # Str(<<"model summary">>)
                /\ ~Failed(out.outcomes[k]) =>
                      /\ result.summary = out.outcomes[k].response.summary
                      /\ result.score = out.outcomes[k].response.score.n

\* the model threw for the first dimension, timed out for the second, answered
\* without a response for the third, and answered the fourth
C21_Witness ==
    /\ Returned
    /\ out.outcomes[1].does = "throws_null"
    /\ out.outcomes[2].does = "hangs"
    /\ out.outcomes[3].does = "resolves"
    /\ out.outcomes[3].response.kind = "undefined"
    /\ ~Failed(out.outcomes[4])
    /\ out.analyses["institutional_alignment"].score = 3
    /\ out.analyses["budget_impact"].summary =
          RaceFallback("AI analysis timeout for budget_impact").summary

\* C25: every dimension result analyzeWithAI returns, and every one in the
\* analysis analyzeBill returns, has a score in -5..5.
C25_ScoreWithinRange ==
    /\ (out.fn = "call" /\ out.pc = "returned") => out.result.score \in (-5)..5
    /\ out.fn = "bill" =>
          \A k \in 1..Len(out.outcomes) :
             out.analyses[analysisTypes[k]].score \in (-5)..5

\* the keywords of a dimension of createSimplifiedAnalysis
DimensionKeywords(d) ==
    CASE d = "tax_impact" -> taxKeywords
      [] d = "budget_impact" -> budgetKeywords
      [] d = "societal_impact" -> societalKeywords

\* the places of the text where a keyword of the set stands
OccurrencePairs(text, keywords) ==
    {p \in keywords \X (1..Len(text)) :
        /\ p[2] + Len(p[1]) - 1 <= Len(text)
        /\ SubSeq(text, p[2], p[2] + Len(p[1]) - 1) = p[1]}

\* C24 as stated: the summary of a keyword dimension says "significant" iff the
\* keywords of the dimension occur more than twice in the text of the
\* document, and "minor" otherwise.
C24_SignificantByOccurrences ==
    out.fn = "analyze" =>
       \A d \in {"tax_impact", "budget_impact", "societal_impact"} :
          LET n == Cardinality(OccurrencePairs(billText(doc), DimensionKeywords(d)))
          IN /\ out.analyses[d] = "significant" <=> n > 2
             /\ out.analyses[d] = "minor" <=> n <= 2

\* C24, amended: with n the number of distinct keywords of the dimension that
\* occur in the text (each counted once, however often it occurs), the
\* dimension is null when n = 0, and otherwise a score-0 result whose summary
\* says "significant" iff n > 2 and "minor" iff n is 1 or 2.
C24_SignificantByDistinctKeywords ==
    out.fn = "analyze" =>
       \A d \in {"tax_impact", "budget_impact", "societal_impact"} :
          LET n == Cardinality({p[1] : p \in OccurrencePairs(billText(doc),
                                                            DimensionKeywords(d))})
          IN /\ out.analyses[d] = "significant" <=> n > 2
             /\ out.analyses[d] = "minor" <=> n \in 1..2
             /\ out.analyses[d] = "null" <=> n = 0
             /\ n > 0 => SimplifiedDimension(d, out.analyses[d]).score = 0

\* a title with three tax keywords
C24_Witness ==
    /\ out.fn = "analyze"
    /\ Cardinality(OccurrencePairs(billText(doc), taxKeywords)) = 3
    /\ Len(doc.title) = 15
    /\ out.analyses["tax_impact"] = "significant"
    /\ out.analyses["budget_impact"] = "null"

\* the text contains the word, letters compared without regard to case
ContainsIgnoringCase(text, word) ==
    \E i \in 1..(Len(text) - Len(word) + 1) :
       \A k \in 1..Len(word) : LowerUnit(text[i + k - 1]) = LowerUnit(word[k])

----------------------------------------------------------------------------
(* Properties of the pure functions (SpecFn) *)

\* the identifier "HB 123"
HB123 == <<"H", "B", " ", "1", "2", "3">>
\* an identifier has a letter, a digit
HasLetter(identifier) == \E i \in 1..Len(identifier) : identifier[i] \in Letters
HasDigit(identifier) == \E i \in 1..Len(identifier) : identifier[i] \in Digits

\* C15 as stated: identifier "HB 123" with chamber "house" yields exactly
\* nh-hb-house-123-analysis.
C15_KeyEndsInAnalysis ==
    (out.fn = "key" /\ doc.identifier = HB123 /\ doc.chamber = House) =>
       out.key = <<"n", "h", "-", "h", "b", "-", "h", "o", "u", "s", "e", "-",
                   "1", "2", "3", "-", "a", "n", "a", "l", "y", "s", "i", "s">>

\* C15, amended: the analysis key is nh-<leading letters of the identifier in lower
\* case>-<chamber, or "unknown" when absent>-<first run of digits of the
\* identifier>-ai-analysis; "HB 123" with chamber "house" yields exactly
\* nh-hb-house-123-ai-analysis, without a chamber nh-hb-unknown-123-ai-analysis.
C15_KeyEndsInAiAnalysis ==
    (out.fn = "key" /\ out.error = "none") =>
       LET n == Len(out.key)
       IN /\ SubSeq(out.key, 1, 3) = <<"n", "h", "-">>
          /\ SubSeq(out.key, n - 11, n) =
                <<"-", "a", "i", "-", "a", "n", "a", "l", "y", "s", "i", "s">>
          /\ \A i \in 1..n : out.key[i] \notin {"H", "B", "S"}
          /\ (doc.identifier = HB123 /\ doc.chamber = House) =>
                out.key = <<"n", "h", "-", "h", "b", "-", "h", "o", "u", "s", "e", "-",
                            "1", "2", "3", "-", "a", "i", "-",
                            "a", "n", "a", "l", "y", "s", "i", "s">>
          /\ (doc.identifier = HB123 /\ doc.chamber = <<>>) =>
                out.key = <<"n", "h", "-", "h", "b", "-",
                            "u", "n", "k", "n", "o", "w", "n", "-",
                            "1", "2", "3", "-", "a", "i", "-",
                            "a", "n", "a", "l", "y", "s", "i", "s">>

\* the key of "HB 123" in the house has been derived
C15_Witness ==
    /\ out.fn = "key"
    /\ out.error = "none"
    /\ doc.identifier = HB123
    /\ doc.chamber = House
    /\ Len(out.key) = 27

\* the identifier of doc has no letter or no digit
Malformed == ~HasLetter(doc.identifier) \/ ~HasDigit(doc.identifier)

C17_NoDimensionRejected ==
    (out.fn = "store" /\ \A d \in Dimensions : out.analyses[d] = "null") =>
       /\ out.error = "ValidationError"
       /\ out.puts = <<>>

\* storeAnalysisResults was called for "HB 123" with an analysis without any type
C17_Witness ==
    /\ out.fn = "store"
    /\ doc.identifier = HB123
    /\ out.analyses = NoDimensions
    /\ out.error = "ValidationError"

\* two documents have the same title, abstract, description, subject and
\* latest_action
SameContent(a, b) ==
    /\ a.title = b.title
    /\ a.abstract = b.abstract
    /\ a.description = b.description
    /\ a.subject = b.subject
    /\ a.latest_action = b.latest_action

\* C19 as stated: the hashes of two documents differ if and only if the documents
\* differ in title, abstract, description, subject or latest_action.
C19_HashDiffersIffContentDiffers ==
    out.fn = "hash" => ((out.first # out.second) <=> ~SameContent(doc, twin))

\* C19, amended: the hash is a function of title, abstract, description, subject
\* and latest_action alone: two documents equal in these have the same hash,
\* whatever their other fields, so that hashes differ only if one of these fields
\* differs (documents that differ in them can have the same hash).
C19_HashDependsOnContentOnly ==
    (out.fn = "hash" /\ SameContent(doc, twin)) => out.first = out.second

\* two documents with different identifiers and chambers and the same content
\* have been hashed
C19_Witness ==
    /\ out.fn = "hash"
    /\ SameContent(doc, twin)
    /\ doc.identifier # twin.identifier
    /\ doc.chamber # twin.chamber
    /\ doc.title = TitleA
    /\ out.first = out.second

\* C20: with env.AI absent, the analyses analyzeBill returns for a document have
\* at least one type present, and storeAnalysisResults does not reject them for
\* a document whose identifier has a type and a number.
C20_SimplifiedAnalysisHasDimension ==
    out.fn = "analyze" =>
       /\ \E d \in Dimensions : out.analyses[d] # "null"
       /\ Malformed \/ StoreRejection(doc, out.analyses) = "none"

\* a document whose text has none of the keywords has been analyzed without env.AI
C20_Witness ==
    /\ out.fn = "analyze"
    /\ doc.title = <<97>>
    /\ doc.abstract = <<>>
    /\ out.analyses["tax_impact"] = "null"
    /\ out.analyses["institutional_alignment"] # "null"

----------------------------------------------------------------------------
(* storeAnalysisResults, getExistingAnalysis and the /api/analysis route,  *)
(* each called as a whole on a bounded store in which one KV operation of  *)
(* the call may reject.  What the call throws is recorded: the class of    *)
(* the error, the names of the fields of its details, and its message.     *)

Err(class, details, message) ==
    [class |-> class, details |-> details, message |-> message]
NoErr == Err("none", {}, <<>>)

\* what a call did: the error it threw, the value it returned (Absent for null),
\* the store it left, and the KV operation that rejected ("none" when none did)
Outcome(error, value, kv, failed) ==
    [error |-> error, value |-> value, kv |-> kv, failed |-> failed]

\* the outer catch of the store's functions: ValidationError and StorageError
\* are rethrown, anything else is wrapped in a StorageError
storeCatchWrapsAll(error) ==
    IF error.class = "none" THEN error
    ELSE Err("StorageError", {"billId", "error"}, <<"Error: ">> \o error.message)
storeCatch(error) ==
    IF error.class \in {"none", "ValidationError", "StorageError"} THEN error
    ELSE Err("StorageError", {"billId", "error"}, <<"Error: ">> \o error.message)

StoreOps == {"put_analysis", "put_mapping", "get_verify"}
ExistingOps == {"get_mapping", "get_mapped", "get_constructed", "put_lazy"}
RouteOps == {"get_mapping", "get_analysis"}

\* storeAnalysisResults(bill, analysis, env)
storeAnalysisResults(bill, analyses, kv, failing) ==
    IF StoreRejection(bill, analyses) # "none"
    THEN Outcome(storeCatch(Err("ValidationError", {}, <<"Validation failed">>)),
                 Absent, kv, "none")
    ELSE LET analysisKey == AnalysisKey(bill)
             analysisData == AnalysisData(bill, AnalysisResult(bill, analyses, 1), 1)
             kv1 == PutAnalysis(kv, analysisKey, analysisData)
             kv2 == [kv1 EXCEPT ![MappingKey(bill.id)] = Text(analysisKey)]
         IN IF failing = "put_analysis"
            THEN Outcome(storeCatch(Err("StorageError", {"analysisKey", "billId"},
                                        <<"Failed to store analysis">>)),
                         Absent, kv, failing)
            ELSE IF failing = "put_mapping"
            THEN Outcome(storeCatch(Err("StorageError", {"billId", "analysisKey"},
                                        <<"Failed to store bill ID mapping">>)),
                         Absent, kv1, failing)
            ELSE IF failing = "get_verify"
            THEN Outcome(storeCatch(Err("StorageError", {"analysisKey", "billId"},
                                        <<"Failed to verify analysis was stored">>)),
                         Absent, kv2, failing)
            ELSE Outcome(NoErr, Text(analysisKey), kv2, "none")

\* getExistingAnalysis(bill, env)
getExistingAnalysis(bill, kv, failing) ==
    IF ~BillValid(bill)
    THEN Outcome(storeCatch(Err("ValidationError", {}, <<"Validation failed">>)),
                 Absent, kv, "none")
    ELSE IF failing = "get_mapping"
    THEN Outcome(storeCatch(Err("StorageError", {"billId"},
                                <<"Failed to get analysis key">>)),
                 Absent, kv, failing)
    ELSE LET m == kv[MappingKey(bill.id)]
             mapped == m.kind = "text" /\ m.text # <<>>
         IN IF mapped /\ failing = "get_mapped"
            THEN Outcome(storeCatch(Err("StorageError", {"analysisKey", "billId"},
                                        <<"Failed to get analysis data">>)),
                         Absent, kv, failing)
            ELSE IF mapped /\ kv[m.text].kind = "analysis"
            THEN Outcome(NoErr,
                         IF ContentUnchanged(bill, kv[m.text]) THEN kv[m.text] ELSE Absent,
                         kv, "none")
            ELSE IF BillTypeFails(bill.identifier) \/ BillNumberFails(bill.identifier)
            THEN Outcome(storeCatch(Err("ValidationError", {}, <<"Invalid identifier">>)),
                         Absent, kv, "none")
            ELSE IF failing = "get_constructed"
            THEN Outcome(storeCatch(Err("StorageError", {"constructedKey", "billId"},
                                        <<"Failed to get analysis with constructed key">>)),
                         Absent, kv, failing)
            ELSE LET analysisData == kv[AnalysisKey(bill)]
                 IN IF analysisData.kind # "analysis"
                    THEN Outcome(NoErr, Absent, kv, "none")
                    ELSE \* a rejected put of the mapping is logged, not thrown
                         Outcome(NoErr,
                                 IF ContentUnchanged(bill, analysisData)
                                 THEN analysisData ELSE Absent,
                                 IF failing = "put_lazy" THEN kv
                                 ELSE PutLazy(kv, bill.id, AnalysisKey(bill)),
                                 IF failing = "put_lazy" THEN failing ELSE "none")

\* getAnalysisByKey(analysisKey, env)
getAnalysisByKeyUnchecked(analysisKey, kv, failing) ==
    Outcome(NoErr, kv[analysisKey], kv, "none")
getAnalysisByKey(analysisKey, kv, failing) ==
    IF analysisKey = <<>>
    THEN Outcome(Err("ValidationError", {}, <<"Analysis key is required">>),
                 Absent, kv, "none")
    ELSE IF failing = "get_analysis"
    THEN Outcome(Err("StorageError", {"analysisKey"}, <<"Failed to get analysis data">>),
                 Absent, kv, failing)
    ELSE IF kv[analysisKey].kind # "analysis"
    THEN Outcome(Err("NotFoundError", {}, <<"Analysis not found for key: ">> \o analysisKey),
                 Absent, kv, "none")
    ELSE Outcome(NoErr, kv[analysisKey], kv, "none")

\* the catch of the route: a NotFoundError gives 404 with its message, anything
\* else 500 with a fixed message
RouteCaught(error, failed) ==
    IF error.class = "NotFoundError"
    THEN [status |-> 404, error |-> error.message, analysis |-> Absent, failed |-> failed]
    ELSE [status |-> 500, error |-> <<"Failed to retrieve analysis">>,
          analysis |-> Absent, failed |-> failed]

\* routes['/api/analysis'] with ?bill_id=<billId>: the response
analysisRoute(billId, kv, failing) ==
    IF failing = "get_mapping"
    THEN RouteCaught(Err("Error", {}, <<"KV GET failed">>), failing)
    ELSE LET key == kv[MappingKey(billId)]
         IN IF ~(key.kind = "text" /\ key.text # <<>>)
            THEN RouteCaught(Err("NotFoundError", {},
                                 <<"No analysis found for bill ID: ", billId>>), "none")
            ELSE LET got == getAnalysisByKey(key.text, kv, failing)
                 IN IF got.error.class # "none"
                    THEN RouteCaught(got.error, got.failed)
                    ELSE [status |-> 200, error |-> <<>>, analysis |-> got.value,
                          failed |-> "none"]

\* The documents handed to the store: "HB 1" as the feed has it, with an amended
\* title, without a title, with an identifier without letters, and "SB 2"
StoreDocs ==
    {Bill1(1), [Bill1(1) EXCEPT !.title = TitleB],
     [f \in DOMAIN Bill1(1) \ {"title"} |-> Bill1(1)[f]],
     [Bill1(1) EXCEPT !.identifier = <<"1", "2", "3">>],
     Bill2(1)}

\* The stores a call may find: for "HB 1" the mapping and the analysis each
\* present or absent (the analysis present after a store call whose mapping put
\* was rejected, the mapping alone after the analysis has expired or was removed)
StoredAnalysis(bill) == AnalysisData(bill, AnalysisResult(bill, PlainAnalyses, 1), 1)
Stores ==
    {[k \in DataKeys |->
        IF k = MappingKey("ocd-bill/1") /\ mapping THEN Text(AnalysisKey(Bill1(1)))
        ELSE IF k = AnalysisKey(Bill1(1)) /\ analysis THEN StoredAnalysis(Bill1(1))
        ELSE Absent] : mapping \in BOOLEAN, analysis \in BOOLEAN}

InitStore ==
    /\ kvData \in Stores
    /\ kvMeta = [last_update_timestamp |-> <<>>, analysis_summaries |-> {}]
    /\ feed = <<>>
    /\ run = [r \in Triggers |-> IdleRun]
    /\ passes = 0
    /\ settled = [id \in BillIds |-> <<>>]
    /\ faults = 0
    /\ doc \in StoreDocs
    /\ twin = Bill1(1)
    /\ out = NoOut

\* the result of a call and the store it was made on
Called(fn, before, o) ==
    [fn |-> fn, before |-> before, error |-> o.error, value |-> o.value,
     failed |-> o.failed]

\* a caller stores an analysis of doc
CallStoreAnalysisResults ==
    /\ \E analyses \in StoreInputs, failing \in StoreOps \cup {"none"} :
          LET o == storeAnalysisResults(doc, analyses, kvData, failing)
          IN /\ out' = Called("storeAnalysisResults", kvData, o)
             /\ kvData' = o.kv
    /\ UNCHANGED <<kvMeta, feed, run, passes, settled, faults, doc, twin, cacheVars>>

\* a caller looks for the analysis of doc
CallGetExistingAnalysis ==
    /\ \E failing \in ExistingOps \cup {"none"} :
          LET o == getExistingAnalysis(doc, kvData, failing)
          IN /\ out' = Called("getExistingAnalysis", kvData, o)
             /\ kvData' = o.kv
    /\ UNCHANGED <<kvMeta, feed, run, passes, settled, faults, doc, twin, cacheVars>>

\* GET /api/analysis?bill_id=<id>
RequestAnalysis ==
    /\ \E billId \in BillIds, failing \in RouteOps \cup {"none"} :
          out' = [fn |-> "analysisRoute", bill_id |-> billId,
                  response |-> analysisRoute(billId, kvData, failing)]
    /\ UNCHANGED <<kvData, kvMeta, feed, run, passes, settled, faults, doc, twin,
                   cacheVars>>

NextStore ==
    \/ CallStoreAnalysisResults
    \/ CallGetExistingAnalysis
    \/ RequestAnalysis

\* the store's functions and the analysis route (the cache is left at rest)
InitStoreOnly == InitStore /\ InitCache
SpecStore == InitStoreOnly /\ [][NextStore]_vars

----------------------------------------------------------------------------
(* Properties of the store's errors and of the analysis route (SpecStore) *)

\* C33: a request for the analysis of a document id, with the KV reads working,
\* is answered 404 with a JSON body { error: message } and never 500, both when
\* the id has no reverse mapping and when the mapping names a key under which no
\* analysis is stored; the message names the id in the first case and the key in
\* the second, so the two responses differ.
C33_NotAvailableIsStructured ==
    (out.fn = "analysisRoute" /\ out.response.failed = "none") =>
       LET m == kvData[MappingKey(out.bill_id)]
       IN /\ m.kind = "absent" =>
               /\ out.response.status = 404
               /\ out.response.error = <<"No analysis found for bill ID: ", out.bill_id>>
          /\ (m.kind = "text" /\ kvData[m.text].kind = "absent") =>
               /\ out.response.status = 404
               /\ out.response.error = <<"Analysis not found for key: ">> \o m.text
          /\ out.response.status # 500
          /\ <<"No analysis found for bill ID: ", out.bill_id>>
                # <<"Analysis not found for key: ">> \o AnalysisKey(Bill1(1))

\* the analysis of "HB 1" was requested on a store holding its mapping and not
\* its analysis
C33_Witness ==
    /\ out.fn = "analysisRoute"
    /\ out.bill_id = "ocd-bill/1"
    /\ kvData[MappingKey("ocd-bill/1")].kind = "text"
    /\ kvData[AnalysisKey(Bill1(1))].kind = "absent"
    /\ out.response.status = 404
    /\ out.response.failed = "none"

\* the names under which the details of an error carry the key of the operation
KeyFields == {"analysisKey", "constructedKey"}
StoreCalled == out.fn \in {"storeAnalysisResults", "getExistingAnalysis"}

\* a ValidationError reaches the caller as a ValidationError
ValidationKept ==
    StoreCalled =>
       (out.error.class = "ValidationError"
          <=> IF out.fn = "getExistingAnalysis"
              THEN \/ ~BillValid(doc)
                   \/ /\ BillTypeFails(doc.identifier) \/ BillNumberFails(doc.identifier)
                      /\ out.failed = "none"
                      /\ LET m == out.before[MappingKey(doc.id)]
                         IN ~(m.kind = "text" /\ out.before[m.text].kind = "analysis")
              ELSE /\ out.failed = "none"
                   /\ out.value = Absent)

\* C34 as stated: every rejected KV read or write of storeAnalysisResults and of
\* getExistingAnalysis reaches the caller as a StorageError whose details carry
\* the key and the document id.
C34_EveryFailureIsStorageErrorWithKey ==
    (StoreCalled /\ out.failed # "none") =>
       /\ out.error.class = "StorageError"
       /\ "billId" \in out.error.details
       /\ out.error.details \cap KeyFields # {}

\* C34, amended: a rejected KV operation of storeAnalysisResults, and a rejected
\* read of getExistingAnalysis, reaches the caller as a StorageError whose details
\* carry the document id, and the key as well except for the read of the reverse
\* mapping; a rejected put of the mapping in getExistingAnalysis is not thrown at
\* all (the call returns what it found); and a ValidationError is never turned
\* into a StorageError.
C34_FailuresAreStorageErrors ==
    /\ (StoreCalled /\ out.failed # "none") =>
          IF out.failed = "put_lazy"
          THEN out.error = NoErr
          ELSE /\ out.error.class = "StorageError"
               /\ "billId" \in out.error.details
               /\ out.failed # "get_mapping" => out.error.details \cap KeyFields # {}
    /\ ValidationKept

\* getExistingAnalysis found the analysis of "HB 1" under the constructed key, its
\* put of the mapping was rejected, and it returned the analysis
C34_Witness ==
    /\ out.fn = "getExistingAnalysis"
    /\ out.failed = "put_lazy"
    /\ out.error = NoErr
    /\ out.value = StoredAnalysis(Bill1(1))
    /\ kvData[MappingKey("ocd-bill/1")] = Absent

----------------------------------------------------------------------------
(* Sync passes over a store in which the record of "HB 1" names an         *)
(* analysis key that holds nothing.  Either the analysis was removed from  *)
(* the store, or the record was written by a pass to which the feed gave   *)
(* the document without from_organization: that pass found the analysis    *)
(* through the reverse mapping and rebuilt the record's key with 'unknown'. *)

\* "HB 1" as the feed reports it without from_organization
Bill1Unknown == [Bill1(1) EXCEPT !.chamber = <<>>]

RepairKeys == DataKeys \cup {AnalysisKey(Bill1Unknown)}

\* the store: the record of "HB 1" naming `key`, the reverse mapping, and the
\* analysis under the key of the house, each present or not
RepairStore(key, mapping, analysis) ==
    [k \in RepairKeys |->
       IF k = BillKey(Bill1(1).identifier)
       THEN [EnhancedBill(Bill1(1)) EXCEPT !.nh_analysis_key = key]
       ELSE IF k = MappingKey("ocd-bill/1") /\ mapping THEN Text(AnalysisKey(Bill1(1)))
       ELSE IF k = AnalysisKey(Bill1(1)) /\ analysis THEN StoredAnalysis(Bill1(1))
       ELSE IF k = CategoryKey THEN List(<<Bill1(1).identifier>>)
       ELSE Absent]

RepairStores ==
    {RepairStore(AnalysisKey(Bill1(1)), TRUE, FALSE),
     RepairStore(AnalysisKey(Bill1(1)), FALSE, FALSE),
     RepairStore(AnalysisKey(Bill1Unknown), TRUE, TRUE)}

InitRepair ==
    /\ kvData \in RepairStores
    /\ kvMeta \in {[last_update_timestamp |-> t, analysis_summaries |-> {}] :
                       t \in {<<>>, <<2>>}}
    /\ feed \in {<<<<Bill1(MaxTime)>>>>, <<<<[Bill1Unknown EXCEPT !.updated_at = MaxTime]>>>>}
    /\ run = [r \in Triggers |-> IdleRun]
    /\ passes = 0
    /\ settled = [id \in BillIds |-> <<>>]
    /\ faults = 0

\* sync passes over a store with a bill record whose analysis key holds nothing
InitRepairOnly == InitRepair /\ InitCache /\ FnAtRest
SpecRepair == InitRepairOnly /\ [][NextSync]_vars

----------------------------------------------------------------------------
(* Properties of the repair of a missing analysis (SpecRepair) *)

\* the record stored for the identifier names a key under which no analysis is
Dangling(identifier) ==
    /\ kvData[BillKey(identifier)].kind = "bill"
    /\ kvData[kvData[BillKey(identifier)].nh_analysis_key].kind # "analysis"

\* C35: the record of "HB 1" names an analysis key that holds nothing when the
\* passes begin; once a pass has processed "HB 1" and is over, the key in the
\* record addresses a stored analysis.
C35_MissingAnalysisRegenerated ==
    \A r \in Triggers :
       (run[r].pc = "done" /\ Includes(run[r].processed, Bill1(1).identifier))
          => ~Dangling(Bill1(1).identifier)

----------------------------------------------------------------------------
(* The gateway's routes behind applyCacheToRoutes, which wraps every route  *)
(* of `routes` in withCache: /api/metrics, and a data route together with  *)
(* POST /api/cache/purge.  The cache key is built from the URL and the      *)
(* Accept and Accept-Encoding headers; one key is modelled, with the        *)
(* windows of the cache model above.                                        *)

\* GET /api/metrics arrives, with or without the valid API key
MetricsArrive(q) ==
    /\ reqs[q].pc \in {"idle", "done"}
    /\ tasks[q] = NoTask
    /\ \E authorized \in BOOLEAN :
          reqs' = [reqs EXCEPT ![q] =
                     [IdleReq EXCEPT !.pc = "match"] @@ [authorized |-> authorized]]
    /\ UNCHANGED <<cache, now, origin, tasks, syncVars, fnVars>>

NextMetrics ==
    \/ \E q \in Requests : MetricsArrive(q)
    \/ \E q \in Requests : Match(q)
    \/ \E q \in Requests : Miss(q)
    \/ \E q \in Requests : MissPut(q)
    \/ \E q \in Requests : RevalidateHandler(q)
    \/ \E q \in Requests : RevalidatePut(q)
    \/ Tick
    \/ OriginUpdate

\* requests to /api/metrics (the sync side is left at rest)
SpecMetrics == InitCacheOnly /\ [][NextMetrics]_vars

\* env.NH_LEGISLATIVE_METADATA as clearCache uses it: the purge record and the
\* version of the one pattern
MaxPurges == 1
NoPurge == [status |-> "none", completedAt |-> 0]
InitPurge ==
    /\ kvData = [k \in DataKeys |-> Absent]
    /\ kvMeta = [last_update_timestamp |-> <<>>, analysis_summaries |-> {},
                 cache_purge |-> NoPurge, cache_version |-> 0, purge_pc |-> "idle"]
    /\ feed = <<>>
    /\ run = [r \in Triggers |-> IdleRun]
    /\ passes = 0
    /\ settled = [id \in BillIds |-> <<>>]
    /\ faults = 0

\* GET of the data route arrives; the request notes whether a purge of its
\* pattern had completed by then
DataArrive(q) ==
    /\ reqs[q].pc \in {"idle", "done"}
    /\ tasks[q] = NoTask
    /\ reqs' = [reqs EXCEPT ![q] =
                  [IdleReq EXCEPT !.pc = "match"]
                     @@ [purged |-> kvMeta.cache_purge.status = "completed"]]
    /\ UNCHANGED <<cache, now, origin, tasks, syncVars, fnVars>>

\* POST /api/cache/purge with the valid API key and the pattern of the data
\* route: clearCache stores the purge record with status 'requested'
ClearCacheRequested ==
    /\ kvMeta.purge_pc = "idle"
    /\ kvMeta.cache_version < MaxPurges
    /\ kvMeta' = [kvMeta EXCEPT !.cache_purge = [status |-> "requested", completedAt |-> 0],
                                !.purge_pc = "version"]
    /\ UNCHANGED <<kvData, feed, run, passes, settled, faults, cacheVars, fnVars>>

\* clearCache: the version of the pattern is read and put back increased by one
ClearCacheVersion ==
    /\ kvMeta.purge_pc = "version"
    /\ kvMeta' = [kvMeta EXCEPT !.cache_version = @ + 1, !.purge_pc = "complete"]
    /\ UNCHANGED <<kvData, feed, run, passes, settled, faults, cacheVars, fnVars>>

\* clearCache: the purge record is stored with status 'completed'; the route
\* answers with the result
ClearCacheCompleted ==
    /\ kvMeta.purge_pc = "complete"
    /\ kvMeta' = [kvMeta EXCEPT !.cache_purge = [status |-> "completed", completedAt |-> now],
                                !.purge_pc = "idle"]
    /\ UNCHANGED <<kvData, feed, run, passes, settled, faults, cacheVars, fnVars>>

NextPurge ==
    \/ \E q \in Requests : DataArrive(q)
    \/ \E q \in Requests : Match(q)
    \/ \E q \in Requests : Miss(q)
    \/ \E q \in Requests : MissPut(q)
    \/ \E q \in Requests : RevalidateHandler(q)
    \/ \E q \in Requests : RevalidatePut(q)
    \/ Tick
    \/ ClearCacheRequested
    \/ ClearCacheVersion
    \/ ClearCacheCompleted

\* a cached data route and purges of its pattern (the data behind the route
\* stays as it is)
InitPurgeOnly == InitPurge /\ InitCache /\ FnAtRest
SpecPurge == InitPurgeOnly /\ [][NextPurge]_vars

----------------------------------------------------------------------------
(* Properties of the gateway's cached routes (SpecPurge, SpecMetrics) *)

\* C36: a GET that arrives after a purge of its pattern has completed is not
\* answered from a cache entry stored before the purge completed.
C36_PurgedEntryNotServed ==
    \A q \in Requests :
       (reqs[q].pc = "done" /\ reqs[q].purged /\ reqs[q].xcache = "HIT")
          => reqs[q].date >= kvMeta.cache_purge.completedAt

\* C37: a GET /api/metrics without the valid API key is answered 401 and never
\* with the metrics.
C37_MetricsOnlyWithKey ==
    \A q \in Requests :
       (reqs[q].pc = "done" /\ ~reqs[q].authorized)
          => (reqs[q].status = 401 /\ reqs[q].body = ErrorBody)

----------------------------------------------------------------------------
(* RateLimiter: checkLimit and the middleware, for a limiter constructed   *)
(* with isEnabled: true and the requests of one key.  The entry of the key *)
(* in env.NH_LEGISLATIVE_METADATA is kvMeta.rate; `settled` is the history *)
(* of the requests answered, in the order of their answers.                *)

RateLimit == 2          \* options.limit
WindowSec == 2          \* options.windowSec, in ticks of the clock
MaxRequests == 3        \* requests per behaviour
MaxRateTime == 2 * WindowSec   \* the clock of the limiter runs for two windows

NoCount == [kind |-> "absent"]
CountData(count, timestamp) == [kind |-> "count", count |-> count, timestamp |-> timestamp]

IdleRateReq ==
    [pc |-> "idle", now |-> 0, count |-> 0, resetTime |-> 0, status |-> 0,
     nextCalled |-> FALSE, alone |-> TRUE]

InitRate ==
    /\ kvData = [k \in DataKeys |-> Absent]
    /\ kvMeta = [rate |-> NoCount]
    /\ feed = <<>>
    /\ run = [r \in Triggers |-> IdleRun]
    /\ passes = 0
    /\ settled = <<>>
    /\ faults = 0
    /\ cache = NoEntry
    /\ now = 0
    /\ origin = 0
    /\ reqs = [q \in Requests |-> IdleRateReq]
    /\ tasks = [q \in Requests |-> NoTask]

InFlight(q) == reqs[q].pc \notin {"idle", "done"}

\* `countData.timestamp > windowStart`: the window of the stored count has not
\* expired
WindowOpenSinceFirst(countData, time) == TRUE
WindowOpen(countData, time) == countData.timestamp > time - WindowSec

\* `count > this.limit`
LimitExceededAtLimit(count) == count >= RateLimit
LimitExceeded(count) == count > RateLimit

\* the middleware is entered and calls checkLimit, which awaits the read of the key
RateArrive(q) ==
    /\ ~InFlight(q)
    /\ Len(settled) + Cardinality({o \in Requests : InFlight(o)}) < MaxRequests
    /\ LET others == \E o \in Requests \ {q} : InFlight(o)
       IN reqs' = [o \in Requests |->
                     IF o = q THEN [IdleRateReq EXCEPT !.pc = "get", !.alone = ~others]
                     ELSE IF InFlight(o) THEN [reqs[o] EXCEPT !.alone = FALSE]
                     ELSE reqs[o]]
    /\ UNCHANGED <<cache, now, origin, tasks, syncVars, fnVars>>

\* checkLimit from the read of the key to the put: a read that throws is replaced
\* by half the limit, stamped now; the count is taken over when the window is
\* open, and incremented
RateGet(q) ==
    /\ reqs[q].pc = "get"
    /\ \E countData \in {kvMeta.rate, CountData(RateLimit \div 2, now)} :
          /\ IF countData = kvMeta.rate THEN NoFault ELSE Fault
          /\ LET open == countData.kind = "count" /\ WindowOpen(countData, now)
             IN reqs' = [reqs EXCEPT ![q] =
                           [@ EXCEPT !.pc = "put", !.now = now,
                                     !.count = (IF open THEN countData.count ELSE 0) + 1,
                                     !.resetTime = IF open
                                                   THEN countData.timestamp + WindowSec
                                                   ELSE now + WindowSec]]
    /\ UNCHANGED <<kvData, kvMeta, feed, run, passes, settled, cache, now, origin,
                   tasks, fnVars>>

\* checkLimit: put(key, { count, timestamp: now }); a put that throws is logged
RatePut(q) ==
    /\ reqs[q].pc = "put"
    /\ \/ /\ NoFault
          /\ kvMeta' = [kvMeta EXCEPT !.rate = CountData(reqs[q].count, reqs[q].now)]
       \/ /\ Fault
          /\ UNCHANGED kvMeta
    /\ reqs' = [reqs EXCEPT ![q].pc = "verify"]
    /\ UNCHANGED <<kvData, feed, run, passes, settled, cache, now, origin, tasks, fnVars>>

\* checkLimit after the readback (which only logs): RateLimitError when the count
\* exceeds the limit, which the middleware answers with 429; otherwise the
\* middleware calls ctx.next() and returns its response with the limit headers
RateVerify(q) ==
    /\ reqs[q].pc = "verify"
    /\ LET exceeded == LimitExceeded(reqs[q].count)
           answered == [reqs[q] EXCEPT !.pc = "done",
                                       !.status = IF exceeded THEN 429 ELSE 200,
                                       !.nextCalled = ~exceeded]
       IN /\ reqs' = [reqs EXCEPT ![q] = answered]
          /\ settled' = Append(settled, [at |-> answered.now, status |-> answered.status,
                                         nextCalled |-> answered.nextCalled,
                                         alone |-> answered.alone])
    /\ UNCHANGED <<kvData, kvMeta, feed, run, passes, faults, cache, now, origin, tasks,
                   fnVars>>

\* Math.floor(Date.now() / 1000) advances
RateTick ==
    /\ now < MaxRateTime
    /\ now' = now + 1
    /\ UNCHANGED <<cache, origin, reqs, tasks, syncVars, fnVars>>

NextRate ==
    \/ \E q \in Requests : RateArrive(q)
    \/ \E q \in Requests : RateGet(q)
    \/ \E q \in Requests : RatePut(q)
    \/ \E q \in Requests : RateVerify(q)
    \/ RateTick

\* the requests of one key at an enabled rate limiter
InitRateOnly == InitRate /\ FnAtRest
SpecRate == InitRateOnly /\ [][NextRate]_vars

----------------------------------------------------------------------------
(* Properties of the rate limiter (SpecRate) *)

\* the requests among the first k answered that were made less than WindowSec
\* before the k-th (the k-th included)
Recent(k) == {j \in 1..k : settled[k].at - settled[j].at < WindowSec}

\* up to the k-th request the client has never made more than RateLimit requests
\* within an interval of WindowSec
WithinRate(k) == \A i \in 1..k : Cardinality(Recent(i)) <= RateLimit

\* C38: a client that never makes more than `limit` requests within any interval
\* of windowSec is never rejected (its requests made one after the other, and the
\* KV operations working).
C38_WithinRateNeverRejected ==
    \A k \in 1..Len(settled) :
       (faults = 0 /\ WithinRate(k) /\ \A j \in 1..k : settled[j].alone)
          => settled[k].status # 429

\* requests i..k were made one after the other, with the KV operations working,
\* the i-th at least WindowSec after every earlier request and the others less
\* than WindowSec after the i-th
OneWindow(i, k) ==
    /\ faults = 0
    /\ \A j \in 1..(i - 1) : settled[i].at - settled[j].at >= WindowSec
    /\ \A j \in i..k : settled[j].alone /\ settled[j].at - settled[i].at < WindowSec

====
